---- MODULE Spec2Model ----
(***************************************************************************)
(* goftp: the control-connection pool of Client (getIdleConn, returnConn,  *)
(* removeConn, openConn, Close), the file-system operations, the listing   *)
(* operations and the transfer engine (Retrieve, Store,                    *)
(* transferFromOffset, size, canResume) that borrow connections from it.   *)
(*                                                                         *)
(* Callers are processes; every blocking point and every access to shared  *)
(* state of the pool is a step of its own, so that the interleavings of    *)
(* the Go code are the behaviours of the model.  The FTP server and the    *)
(* network are the environment: each command exchange ends with a reply    *)
(* code or with an I/O error, chosen nondeterministically.                 *)
(***************************************************************************)
EXTENDS Integers, Sequences, FiniteSets, TLC

\* ------------------------------------------------------------------ bounds
NumProcs == 2          \* concurrent callers of the client
MaxConnections == 2    \* Config.MaxConnections of the modelled client
MaxIdx == 3            \* connections the pool may start to open in a run
MaxFile == 2           \* length of the transferred file, in bytes
MaxHosts == 2          \* servers the client may be configured with
MaxCloses == 1         \* times a transfer callback closes all connections

Procs == 1..NumProcs
Conns == 1..MaxIdx
NoConn == 0
NoProc == 0

\* ------------------------------------------------------- reply codes (FTP)
IOError == 0                    \* no reply: write or read failed
replyGroupPreliminaryReply == 1
replyGroupPositiveCompletion == 2
replyFileStatusOkay == 150
replyCommandOkay == 200
replyFileStatus == 213
replyClosingDataConnection == 226
replyEnteringPassiveMode == 227
replyFileActionOkay == 250
replyDirCreated == 257
replyFileActionPending == 350
replyFileError == 550

VARIABLES
  \* Client (the pool)
  freeConnCh,     \* chan *persistentConn: FIFO of connection idx
  numOpenConns,   \* int32 counter
  mu,             \* sync.Mutex: NoProc when free, else the locking process
  connIdx,        \* last idx handed out
  closed,         \* Client.closed
  allCons,        \* keys of Client.allCons
  \* persistentConn, by idx
  broken,         \* set of idx whose broken flag is set
  sockClosed,     \* set of idx whose control socket has been closed
  \* callers
  pc,             \* position of each process
  op,             \* operation each process runs (or ran last)
  pconn,          \* connection each process holds (NoConn if none)
  reg,            \* value of numOpenConns read by `c.numOpenConns++`
  res,            \* result of the last completed operation
  cons,           \* Close(): snapshot of allCons still to remove
  \* the server and the arguments of the transfer in progress
  hosts,          \* len(c.hosts)
  srvFeat,        \* FEAT map the server advertises
  features,       \* persistentConn.features, by idx
  fileLen,        \* length of the file (Retrieve) or of the source (Store)
  seeker,         \* Store: src implements io.Seeker
  remote,         \* Store: bytes of the file on the server
  sink,           \* Retrieve: bytes dest has accepted
  srcPos,         \* Store: read position of src
  \* locals of Retrieve / Store / transferFromOffset
  stage,          \* the call Retrieve/Store is in
  size,           \* result of c.size(path)
  canResume,
  bytesSoFar,
  offset,         \* argument of transferFromOffset
  n,              \* bytes the attempt copied
  err,            \* error of the call that just returned
  \* history
  lastRest,       \* offset of the REST sent in this attempt, -1 if none
  attempts,       \* calls of transferFromOffset in this operation
  closes,         \* times all connections were closed under a transfer
  trouble,        \* the worst that went wrong so far in this operation
  lateCall,       \* callers whose operation began after Close() had returned
  dialled,        \* by idx: position in c.hosts of the host openConn dials
  \* one persistentConn seen from its control socket
  config,         \* Config: TLS (explicit mode), User, Password
  password2,      \* the Password of a second run that differs in nothing else
  step,           \* position of openConn / of the caller of the connection
  tls,            \* the control socket has been wrapped by tls.Client
  wire,           \* the exchanges so far: command, line written, outcome, reply text
  log,            \* lines written to Config.Logger
  log2,           \* the same for the second run
  featMsg,        \* text of the reply to FEAT
  featureMap,     \* persistentConn.features as fetchFeatures filled it
  cerr            \* error of the call that returned last

xferVars == <<hosts, srvFeat, features, fileLen, seeker, remote, sink, srcPos, stage,
              size, canResume, bytesSoFar, offset, n, err, lastRest,
              attempts, closes, trouble>>

connRest == <<config, password2, step, tls, wire, log, log2, featMsg,
              featureMap, cerr>>

connVars == <<connRest, dialled>>

vars == <<freeConnCh, numOpenConns, mu, connIdx, closed, allCons,
          broken, sockClosed, pc, op, pconn, reg, res, cons, xferVars,
          lateCall, connVars>>

poolVars == <<freeConnCh, numOpenConns, mu, connIdx, closed, allCons>>

\* ---------------------------------------------------------------- helpers
positiveCompletionReply(code) == code \div 100 = 2

positivePreliminaryReply(code) == code \div 100 = 1

\* sendCommandExpected: TRUE when the reply is accepted
ExpectedOk(expected, code) ==
  IF expected \in {replyGroupPositiveCompletion, replyGroupPreliminaryReply}
  THEN code \div 100 = expected
  ELSE code = expected

\* replies the environment may give to a command on connection c whose
\* nominal reply is `good`: sendCommand on a closed socket can only fail
Replies(c, good) ==
  IF c \in sockClosed THEN {IOError} ELSE {IOError, good, replyFileError}

\* a variant of MarkBroken that also gives up a connection on a refusal
MarkBrokenOnRefusal(c, code) ==
  IF code \in {IOError, replyFileError} THEN broken \cup {c} ELSE broken

\* sendCommand / readResponse: an I/O error marks the connection broken
MarkBroken(c, code) == IF code = IOError THEN broken \cup {c} ELSE broken

Upd(f, p, v) == [f EXCEPT ![p] = v]

\* the transfer state except persistentConn.features
xferRest == <<hosts, srvFeat, fileLen, seeker, remote, sink, srcPos, stage, size,
              canResume, bytesSoFar, offset, n, err, lastRest, attempts,
              closes, trouble>>

\* error values: nil, an I/O error (code 0), an ftpError carrying the code
\* and the text of a reply, and the errors made by fmt.Errorf / errors.New.
\* The text of a reply that refuses a command names that command
Nil == [kind |-> "nil", code |-> 0, msg |-> ""]
IOErr == [kind |-> "io", code |-> 0, msg |-> ""]
FtpErr(code, text) == [kind |-> "ftp", code |-> code, msg |-> text]
Errorf(what) == [kind |-> what, code |-> 0, msg |-> ""]

\* persistentConn.features: a FEAT map is the set of its <<name, argument>>
\* entries
NoFeatures == {}
FeatMaps == { {},
              {<<"REST", "STREAM">>},
              {<<"SIZE", "">>, <<"REST", "STREAM">>},
              {<<"SIZE", "">>, <<"REST", "MARK">>} }

\* persistentConn.hasFeature: `_, found := pconn.features[name]`
hasFeature(feat, name) == \E e \in feat : e[1] = name

\* a variant of hasFeatureWithArg that does not compare the argument
hasFeatureAnyArg(feat, name, arg) == \E e \in feat : e[1] = name

\* persistentConn.hasFeatureWithArg: `found && strings.ToUpper(arg) == val`
hasFeatureWithArg(feat, name, arg) == \E e \in feat : e[1] = name /\ e[2] = arg

XferOps == {"Retrieve", "Store"}

\* what can go wrong under a transfer, by weight: "sink" is a write to dest
\* (or to the data socket) that fails after it took at least one byte,
\* "closeall" is a callback that closes every connection of the client and
\* what follows from it, "env" is any other failure of the server, the
\* network or the caller's reader
Weight(t) == CASE t = "none" -> 0 [] t = "sink" -> 1 [] t = "closeall" -> 2
               [] t = "env" -> 3
Worse(t, u) == IF Weight(u) > Weight(t) THEN u ELSE t

\* the caller that runs Retrieve and Store
Mover == CHOOSE p \in Procs : \A q \in Procs : p <= q

\* the bytes of a file of length len: byte i has value i
File(len) == [i \in 1..len |-> i]

\* ------------------------------------------------------------------- Init
\* no connection is looked at from its control socket
ConnIdle ==
  /\ config = [TLS |-> FALSE, User |-> <<>>, Password |-> <<>>]
  /\ password2 = <<>>
  /\ step = "none"
  /\ tls = FALSE
  /\ wire = <<>>
  /\ log = <<>>
  /\ log2 = <<>>
  /\ featMsg = <<>>
  /\ featureMap = {}
  /\ cerr = [code |-> 0, msg |-> <<>>, err |-> "nil", temporary |-> FALSE]

\* no host: openConn has not been called with this idx
NoHost == -1

\* a variant of HostIndex that always takes the first host
HostIndexFirst(idx, len) == 0

\* openConn: `host := c.hosts[idx%len(c.hosts)]`, as a position in c.hosts
HostIndex(idx, len) == idx % len

\* the hosts dialled by a client of len hosts whose connIdx is k and that
\* has no openConn under way
DialledUpTo(k, len) == [i \in Conns |-> IF i <= k THEN i % len ELSE NoHost]

\* no transfer has been started
XferInit ==
  /\ features = [c \in Conns |-> NoFeatures]
  /\ fileLen = 0
  /\ seeker = FALSE
  /\ remote = <<>>
  /\ sink = <<>>
  /\ srcPos = 0
  /\ stage = "none"
  /\ size = -1
  /\ canResume = FALSE
  /\ bytesSoFar = 0
  /\ offset = 0
  /\ n = 0
  /\ err = Nil
  /\ lastRest = -1
  /\ attempts = 0
  /\ closes = 0
  /\ trouble = "none"

PoolInit ==
  /\ freeConnCh = <<>>
  /\ numOpenConns = 0
  /\ mu = NoProc
  /\ connIdx = 0
  /\ closed = FALSE
  /\ allCons = {}
  /\ broken = {}
  /\ sockClosed = {}
  /\ pc = [p \in Procs |-> "idle"]
  /\ op = [p \in Procs |-> "none"]
  /\ pconn = [p \in Procs |-> NoConn]
  /\ reg = [p \in Procs |-> 0]
  /\ res = [p \in Procs |-> "none"]
  /\ cons = [p \in Procs |-> {}]
  /\ lateCall = {}
  /\ hosts = 1
  /\ dialled = DialledUpTo(connIdx, hosts)
  /\ srvFeat = {<<"SIZE", "">>, <<"REST", "STREAM">>}
  /\ XferInit

Init == PoolInit /\ ConnIdle


\* ------------------------------------------------- Client.getIdleConn
\* what an error of getIdleConn means to its caller: c.size returns
\* (-1, err), c.canResume returns false, transferFromOffset returns (0, err);
\* the one-command operations keep no such state
XferAcquireFailed(p) ==
  IF op[p] \in XferOps
  THEN /\ size' = (IF stage \in {"size", "resize", "fsize"} THEN -1 ELSE size)
       /\ canResume' = (IF stage = "canResume" THEN FALSE ELSE canResume)
       /\ n' = (IF stage = "xfer" THEN 0 ELSE n)
       /\ err' = (IF stage = "canResume" THEN Nil ELSE Errorf("open"))
       /\ trouble' = Worse(trouble, "env")
       /\ UNCHANGED <<hosts, srvFeat, fileLen, seeker, remote, sink, srcPos,
                      stage, bytesSoFar, offset, lastRest, attempts, closes>>
  ELSE UNCHANGED xferRest

\* a variant of CanOpen that opens one connection too many
CanOpenLoose(open) == open <= MaxConnections

\* `if c.numOpenConns < c.config.MaxConnections`
CanOpen(open) == open < MaxConnections

\* a variant of Recv that leaves the connection in the channel
RecvPeek(ch) == [conn |-> Head(ch), rest |-> ch]

\* the connection a receive from freeConnCh yields, and the channel after it
Recv(ch) == [conn |-> Head(ch), rest |-> Tail(ch)]

\* first loop: `select { case pconn := <-c.freeConnCh: ... default: break }`
GetIdleFast(p) ==
  /\ pc[p] = "gi_fast"
  /\ IF freeConnCh # <<>>
     THEN /\ freeConnCh' = Recv(freeConnCh).rest
          /\ pconn' = Upd(pconn, p, Recv(freeConnCh).conn)
          /\ pc' = Upd(pc, p, IF Recv(freeConnCh).conn \in broken
                              THEN "gi_fast_dec" ELSE "got")
     ELSE /\ pc' = Upd(pc, p, "gi_lock")
          /\ UNCHANGED <<freeConnCh, pconn>>
  /\ UNCHANGED <<numOpenConns, mu, connIdx, closed, allCons, broken,
                 sockClosed, op, reg, lateCall, connVars, res, cons, xferVars>>

\* `atomic.AddInt32(&c.numOpenConns, -1)` for a broken connection taken
\* from the channel (both loops)
DiscardDec(p) ==
  /\ pc[p] \in {"gi_fast_dec", "gi_wait_dec"}
  /\ numOpenConns' = numOpenConns - 1
  /\ pc' = Upd(pc, p, IF pc[p] = "gi_fast_dec" THEN "gi_fast_rm" ELSE "gi_wait_rm")
  /\ UNCHANGED <<freeConnCh, mu, connIdx, closed, allCons, broken,
                 sockClosed, op, pconn, reg, lateCall, connVars, res, cons, xferVars>>

\* a variant of removeConn that leaves the connection registered and open
removeConnNot(c) ==
  /\ mu = NoProc
  /\ UNCHANGED <<allCons, sockClosed>>

\* Client.removeConn: lock, delete(c.allCons, idx), unlock, pconn.close()
removeConn(c) ==
  /\ mu = NoProc
  /\ allCons' = allCons \ {c}
  /\ sockClosed' = sockClosed \cup {c}

\* `c.removeConn(pconn)` after the decrement, then the loop goes round
DiscardRemove(p) ==
  /\ pc[p] \in {"gi_fast_rm", "gi_wait_rm"}
  /\ removeConn(pconn[p])
  /\ pconn' = Upd(pconn, p, NoConn)
  /\ pc' = Upd(pc, p, IF pc[p] = "gi_fast_rm" THEN "gi_fast" ELSE "gi_lock")
  /\ UNCHANGED <<freeConnCh, numOpenConns, mu, connIdx, closed, broken,
                 op, reg, lateCall, connVars, res, cons, xferVars>>

\* second loop: c.mu.Lock(); the test of numOpenConns; when it passes, the
\* read half of `c.numOpenConns++` (the mutex stays held); when it fails,
\* c.mu.Unlock() and the caller goes to block on the channel
GetIdleLock(p) ==
  /\ pc[p] = "gi_lock"
  /\ mu = NoProc
  /\ IF CanOpen(numOpenConns)
     THEN /\ connIdx < MaxIdx
          /\ mu' = p
          /\ reg' = Upd(reg, p, numOpenConns)
          /\ pc' = Upd(pc, p, "gi_store")
     ELSE /\ pc' = Upd(pc, p, "gi_wait")
          /\ UNCHANGED <<mu, reg>>
  /\ UNCHANGED <<freeConnCh, numOpenConns, connIdx, closed, allCons, broken,
                 sockClosed, op, pconn, res, cons, xferVars, lateCall, connVars>>

\* a variant of IncStore whose increment never lands
IncStoreNot(read, current) == read

\* the value `c.numOpenConns++` writes back: a plain (non-atomic) store of
\* the value read plus one
IncStore(read, current) == read + 1

\* the write half of `c.numOpenConns++` (the value read is dead after it),
\* c.connIdx++, idx := c.connIdx, c.mu.Unlock()
GetIdleStore(p) ==
  /\ pc[p] = "gi_store"
  /\ numOpenConns' = IncStore(reg[p], numOpenConns)
  /\ reg' = Upd(reg, p, 0)
  /\ connIdx' = connIdx + 1
  /\ pconn' = Upd(pconn, p, connIdx + 1)
  /\ mu' = NoProc
  /\ pc' = Upd(pc, p, "gi_open")
  /\ UNCHANGED <<freeConnCh, closed, allCons, broken, sockClosed, op,
                 res, cons, xferVars, lateCall, connVars>>

\* persistentConn.fetchFeatures: the FEAT map read during the setup
fetchFeatures == srvFeat

\* getIdleConn returns the error of openConn to the operation: Delete,
\* Rename, Mkdir, Rmdir, controlStringList and dataStringList return it
AcquireFailed(p) ==
  /\ pc' = Upd(pc, p, IF op[p] = "simple" THEN "done" ELSE "after")
  /\ res' = Upd(res, p, IF op[p] = "simple" THEN "err" ELSE res[p])

\* a variant of ReleaseSlot that keeps the slot of the failed open
ReleaseSlotNot(open) == open

\* `atomic.AddInt32(&c.numOpenConns, -1)` after an error of openConn
ReleaseSlot(open) == open - 1

\* Client.openConn fails before registering (dial, greeting, login or
\* FEAT): pconn.close(), then in getIdleConn
\* `atomic.AddInt32(&c.numOpenConns, -1)` and `return pconn, err`
OpenConnFail(p) ==
  /\ pc[p] = "gi_open"
  /\ sockClosed' = sockClosed \cup {pconn[p]}
  /\ pconn' = Upd(pconn, p, NoConn)
  /\ numOpenConns' = ReleaseSlot(numOpenConns)
  /\ dialled' = Upd(dialled, pconn[p], HostIndex(pconn[p], hosts))
  /\ AcquireFailed(p)
  /\ UNCHANGED <<freeConnCh, mu, connIdx, closed, allCons, broken, op, reg, lateCall, connRest,
                 cons, features>>
  /\ XferAcquireFailed(p)

\* Client.openConn after a successful setup: c.mu.Lock(); a closed client
\* closes the connection and fails, else c.allCons[idx] = pconn
OpenConnRegister(p) ==
  /\ pc[p] = "gi_open"
  /\ mu = NoProc
  /\ IF closed
     THEN /\ sockClosed' = sockClosed \cup {pconn[p]}
          /\ pconn' = Upd(pconn, p, NoConn)
          /\ pc' = Upd(pc, p, "gi_open_dec")
          /\ UNCHANGED allCons
     ELSE /\ allCons' = allCons \cup {pconn[p]}
          /\ pc' = Upd(pc, p, "got")
          /\ UNCHANGED <<sockClosed, pconn>>
  /\ features' = Upd(features, pconn[p], fetchFeatures)
  /\ dialled' = Upd(dialled, pconn[p], HostIndex(pconn[p], hosts))
  /\ UNCHANGED <<freeConnCh, numOpenConns, mu, connIdx, closed, broken, op,
                 reg, lateCall, connRest, res, cons, xferRest>>

\* `atomic.AddInt32(&c.numOpenConns, -1)` after openConn found the client
\* closed; getIdleConn returns the error
OpenFailDec(p) ==
  /\ pc[p] = "gi_open_dec"
  /\ numOpenConns' = numOpenConns - 1
  /\ AcquireFailed(p)
  /\ UNCHANGED <<freeConnCh, mu, connIdx, closed, allCons, broken,
                 sockClosed, op, pconn, reg, lateCall, connVars, cons, features>>
  /\ XferAcquireFailed(p)

\* `pconn := <-c.freeConnCh`: blocks until a connection is returned
GetIdleWait(p) ==
  /\ pc[p] = "gi_wait"
  /\ freeConnCh # <<>>
  /\ freeConnCh' = Recv(freeConnCh).rest
  /\ pconn' = Upd(pconn, p, Recv(freeConnCh).conn)
  /\ pc' = Upd(pc, p, IF Recv(freeConnCh).conn \in broken
                      THEN "gi_wait_dec" ELSE "got")
  /\ UNCHANGED <<numOpenConns, mu, connIdx, closed, allCons, broken,
                 sockClosed, op, reg, lateCall, connVars, res, cons, xferVars>>

\* Client.returnConn: `c.freeConnCh <- pconn` (blocks while the buffer of
\* MaxConnections entries is full)
returnConn(c) ==
  /\ Len(freeConnCh) < MaxConnections
  /\ freeConnCh' = Append(freeConnCh, c)

\* ------------------------------------------- operations of one command
\* Close() has set c.closed and no caller is inside Close()
CloseReturned ==
  /\ closed
  /\ \A q \in DOMAIN pc : pc[q] \notin {"cl_lock", "cl_rm"}

\* the callers that began their operation after Close() had returned, once
\* p calls one
Called(p) == IF CloseReturned THEN lateCall \cup {p} ELSE lateCall

FsOps == {"Delete", "Mkdir", "Rmdir", "Rename"}
ListOps == {"NameList", "ReadDir"}
SimpleOps == FsOps \cup ListOps \cup {"Stat"}

\* a caller starts one of Delete, Rename, Mkdir, Rmdir, Stat, NameList,
\* ReadDir: the first statement of each is c.getIdleConn(), so which one it
\* is shows only when that call has returned
StartOp(p) ==
  /\ lateCall' = Called(p)
  /\ UNCHANGED connVars
  /\ pc[p] = "idle"
  /\ op' = Upd(op, p, "simple")
  /\ pc' = Upd(pc, p, "gi_fast")
  /\ UNCHANGED <<poolVars, broken, sockClosed, pconn, reg, res, cons, xferVars>>

\* the locals of Retrieve / Store and the arguments of the call are gone
\* when it has returned
XferReset ==
  /\ fileLen' = 0
  /\ seeker' = FALSE
  /\ remote' = <<>>
  /\ sink' = <<>>
  /\ srcPos' = 0
  /\ stage' = "none"
  /\ size' = -1
  /\ canResume' = FALSE
  /\ bytesSoFar' = 0
  /\ offset' = 0
  /\ n' = 0
  /\ err' = Nil
  /\ lastRest' = -1
  /\ attempts' = 0
  /\ closes' = 0
  /\ trouble' = "none"
  /\ UNCHANGED <<hosts, srvFeat>>

\* the caller has its result and goes on
Return(p) ==
  /\ pc[p] = "done"
  /\ lateCall' = lateCall \ {p}
  /\ UNCHANGED connVars
  /\ pc' = Upd(pc, p, "idle")
  /\ op' = Upd(op, p, "none")
  /\ res' = Upd(res, p, "none")
  /\ IF op[p] \in XferOps THEN XferReset ELSE UNCHANGED xferRest
  /\ UNCHANGED <<poolVars, broken, sockClosed, pconn, reg, cons, features>>

\* reply each file-system command expects
FsExpected(o) == IF o = "Mkdir" THEN replyDirCreated ELSE replyFileActionOkay

\* what Delete, Rename, Mkdir and Rmdir do with the connection when they
\* return: file_system.go returns the result of sendCommandExpected
\* directly, the channel is left as it is
FsReturn(ch, c) == ch

\* Delete, Mkdir, Rmdir: `return pconn.sendCommandExpected(expected, ...)`
FsCommand(p) ==
  /\ pc[p] = "got"
  /\ op[p] = "simple"
  /\ \E o \in {"Delete", "Mkdir", "Rmdir"} :
       \E code \in Replies(pconn[p], FsExpected(o)) :
         /\ op' = Upd(op, p, o)
         /\ broken' = MarkBroken(pconn[p], code)
         /\ res' = Upd(res, p, IF ExpectedOk(FsExpected(o), code) THEN "ok" ELSE "err")
  /\ freeConnCh' = FsReturn(freeConnCh, pconn[p])
  /\ pconn' = Upd(pconn, p, NoConn)
  /\ pc' = Upd(pc, p, "done")
  /\ UNCHANGED <<numOpenConns, mu, connIdx, closed, allCons, sockClosed, reg, lateCall, connVars,
                 cons, xferVars>>

\* Rename: RNFR expecting 350, an error returns at once; then RNTO
\* expecting 250
Rename(p) ==
  /\ pc[p] = "got"
  /\ op[p] = "simple"
  /\ \E from \in Replies(pconn[p], replyFileActionPending) :
       IF ExpectedOk(replyFileActionPending, from)
       THEN \E to \in Replies(pconn[p], replyFileActionOkay) :
              /\ broken' = MarkBroken(pconn[p], to)
              /\ res' = Upd(res, p, IF ExpectedOk(replyFileActionOkay, to)
                                    THEN "ok" ELSE "err")
       ELSE /\ broken' = MarkBroken(pconn[p], from)
            /\ res' = Upd(res, p, "err")
  /\ op' = Upd(op, p, "Rename")
  /\ freeConnCh' = FsReturn(freeConnCh, pconn[p])
  /\ pconn' = Upd(pconn, p, NoConn)
  /\ pc' = Upd(pc, p, "done")
  /\ UNCHANGED <<numOpenConns, mu, connIdx, closed, allCons, sockClosed, reg, lateCall, connVars,
                 cons, xferVars>>

\* Stat -> controlStringList: one sendCommand, a non-2xx code (0 on an I/O
\* error) is the error; the deferred returnConn runs at the return
ControlStringList(p) ==
  /\ pc[p] = "got"
  /\ op[p] = "simple"
  /\ \E code \in Replies(pconn[p], replyFileActionOkay) :
       /\ broken' = MarkBroken(pconn[p], code)
       /\ res' = Upd(res, p, IF positiveCompletionReply(code) THEN "ok" ELSE "err")
  /\ op' = Upd(op, p, "Stat")
  /\ returnConn(pconn[p])
  /\ pconn' = Upd(pconn, p, NoConn)
  /\ pc' = Upd(pc, p, "done")
  /\ UNCHANGED <<numOpenConns, mu, connIdx, closed, allCons, sockClosed, reg, lateCall, connVars,
                 cons, xferVars>>

\* persistentConn.openDataConn: requestPassive (EPSV, else PASV), then the
\* dial of the data socket.  Outcomes: "ok"; "io" when an exchange failed
\* (the connection is broken); "reply" when PASV was refused; "dial" when
\* the data socket could not be opened
DataConnOutcomes(c) ==
  IF c \in sockClosed THEN {"io"} ELSE {"ok", "io", "reply", "dial"}

\* NameList, ReadDir -> dataStringList: openDataConn; the command expecting
\* 1xx; the scan of the data socket (a read error is remembered in
\* dataError); dc.Close(); readResponse and the choice of the result; the
\* deferred returnConn runs at every return
DataStringList(p) ==
  /\ pc[p] = "got"
  /\ op[p] = "simple"
  /\ \E o \in ListOps : op' = Upd(op, p, o)
  /\ \E dc \in DataConnOutcomes(pconn[p]) :
       IF dc # "ok"
       THEN /\ broken' = (IF dc = "io" THEN broken \cup {pconn[p]} ELSE broken)
            /\ res' = Upd(res, p, "err")
       ELSE \E cmd \in Replies(pconn[p], replyFileStatusOkay) :
              IF ~ExpectedOk(replyGroupPreliminaryReply, cmd)
              THEN /\ broken' = MarkBroken(pconn[p], cmd)
                   /\ res' = Upd(res, p, "err")
              ELSE \E final \in Replies(pconn[p], replyClosingDataConnection),
                      dataError \in BOOLEAN :
                     /\ broken' = MarkBroken(pconn[p], final)
                     /\ res' = Upd(res, p, IF positiveCompletionReply(final) /\ ~dataError
                                           THEN "ok" ELSE "err")
  /\ returnConn(pconn[p])
  /\ pconn' = Upd(pconn, p, NoConn)
  /\ pc' = Upd(pc, p, "done")
  /\ UNCHANGED <<numOpenConns, mu, connIdx, closed, allCons, sockClosed, reg, lateCall, connVars,
                 cons, xferVars>>

\* ------------------------------------------------------- Client.Close
\* c.mu.Lock(); `if c.closed { return errors.New("already closed") }`
\* returns with the mutex still locked; else c.closed = true, the snapshot
\* of c.allCons, c.mu.Unlock()
CloseLock(p) ==
  /\ pc[p] = "cl_lock"
  /\ mu = NoProc
  /\ IF closed
     THEN /\ mu' = p
          /\ pc' = Upd(pc, p, "done")
          /\ res' = Upd(res, p, "err")
          /\ UNCHANGED <<closed, cons>>
     ELSE /\ closed' = TRUE
          /\ cons' = Upd(cons, p, allCons)
          /\ pc' = Upd(pc, p, "cl_rm")
          /\ UNCHANGED <<mu, res>>
  /\ UNCHANGED <<freeConnCh, numOpenConns, connIdx, allCons, broken,
                 sockClosed, op, pconn, reg, lateCall, connVars, xferVars>>

\* `for _, pconn := range cons { c.removeConn(pconn) }`, one connection
CloseRemove(p) ==
  /\ pc[p] = "cl_rm"
  /\ \E c \in cons[p] :
       /\ removeConn(c)
       /\ cons' = Upd(cons, p, cons[p] \ {c})
  /\ UNCHANGED <<freeConnCh, numOpenConns, mu, connIdx, closed, broken, pc,
                 op, pconn, reg, lateCall, connVars, res, xferVars>>

\* Close() called by a caller of the client
StartClose(p) ==
  /\ lateCall' = Called(p)
  /\ UNCHANGED connVars
  /\ pc[p] = "idle"
  /\ op' = Upd(op, p, "Close")
  /\ pc' = Upd(pc, p, "cl_lock")
  /\ UNCHANGED <<poolVars, broken, sockClosed, pconn, reg, res, cons, xferVars>>

\* `return nil` of Close()
CloseDone(p) ==
  /\ pc[p] = "cl_rm"
  /\ cons[p] = {}
  /\ op[p] = "Close"
  /\ pc' = Upd(pc, p, "done")
  /\ res' = Upd(res, p, "ok")
  /\ UNCHANGED <<poolVars, broken, sockClosed, op, pconn, reg, lateCall, connVars, cons, xferVars>>

\* ------------------------------------------------ Retrieve and Store
\* what the environment did to a command whose nominal reply is `good`: the
\* I/O error forced by a socket that Close closed belongs to "closeall"
ReplyTrouble(c, code, good) ==
  IF code = good THEN "none"
  ELSE IF code = IOError /\ c \in sockClosed THEN "closeall" ELSE "env"

\* the error sendCommandExpected returns for a reply that is not accepted
ErrOf(code, text) == IF code = IOError THEN IOErr ELSE FtpErr(code, text)

\* Retrieve(path, dest): the caller's arguments, then `c.size(path)`
StartRetrieve(p) ==
  /\ lateCall' = Called(p)
  /\ UNCHANGED connVars
  /\ p = Mover
  /\ pc[p] = "idle"
  /\ \E len \in 0..MaxFile : fileLen' = len
  /\ op' = Upd(op, p, "Retrieve")
  /\ stage' = "size"
  /\ pc' = Upd(pc, p, "gi_fast")
  /\ UNCHANGED <<poolVars, broken, sockClosed, pconn, reg, res, cons, hosts,
                 srvFeat, features, seeker, remote, sink, srcPos, size,
                 canResume, bytesSoFar, offset, n, err, lastRest, attempts,
                 closes, trouble>>

\* Store(path, src): `canResume := len(c.hosts) == 1 && c.canResume()`; with
\* several hosts c.canResume() is not called and the loop starts at once
StartStore(p) ==
  /\ lateCall' = Called(p)
  /\ UNCHANGED connVars
  /\ p = Mover
  /\ pc[p] = "idle"
  /\ \E len \in 0..MaxFile : fileLen' = len
  /\ \E sk \in BOOLEAN : seeker' = sk
  /\ op' = Upd(op, p, "Store")
  /\ stage' = (IF hosts = 1 THEN "canResume" ELSE "xfer")
  /\ attempts' = (IF hosts = 1 THEN attempts ELSE 1)
  /\ pc' = Upd(pc, p, "gi_fast")
  /\ UNCHANGED <<poolVars, broken, sockClosed, pconn, reg, res, cons, hosts,
                 srvFeat, features, remote, sink, srcPos, size, canResume,
                 bytesSoFar, offset, n, err, lastRest, closes, trouble>>

\* the size of the file on the server
RemoteSize(o) == IF o = "Retrieve" THEN fileLen ELSE Len(remote)

\* the number a 213 reply to SIZE may carry: the size of the file, or one
\* more (a server that counts differently, a file that has grown)
SizeReports(o) == {RemoteSize(o), RemoteSize(o) + 1}

\* Client.size after getIdleConn: -1 without the SIZE feature; else the SIZE
\* command: an I/O error is returned, a code other than 213 or a text that
\* does not parse gives (-1, nil); the deferred returnConn runs at the return
ClientSize(p) ==
  /\ pc[p] = "got"
  /\ op[p] \in XferOps
  /\ stage \in {"size", "resize", "fsize"}
  /\ IF ~hasFeature(features[pconn[p]], "SIZE")
     THEN /\ size' = -1
          /\ err' = Nil
          /\ UNCHANGED <<broken, trouble>>
     ELSE \E code \in Replies(pconn[p], replyFileStatus),
             parsed \in BOOLEAN, reported \in SizeReports(op[p]) :
            /\ code # replyFileStatus => parsed
            /\ code # replyFileStatus \/ ~parsed => reported = RemoteSize(op[p])
            /\ broken' = MarkBroken(pconn[p], code)
            /\ trouble' = Worse(trouble, IF parsed /\ reported = RemoteSize(op[p])
                                          THEN ReplyTrouble(pconn[p], code, replyFileStatus)
                                          ELSE "env")
            /\ size' = (IF code = replyFileStatus /\ parsed THEN reported ELSE -1)
            /\ err' = (IF code = IOError THEN IOErr ELSE Nil)
  /\ returnConn(pconn[p])
  /\ pconn' = Upd(pconn, p, NoConn)
  /\ pc' = Upd(pc, p, "after")
  /\ UNCHANGED <<numOpenConns, mu, connIdx, closed, allCons, sockClosed, op,
                 reg, lateCall, connVars, res, cons, hosts, srvFeat, features, fileLen, seeker,
                 remote, sink, srcPos, stage, canResume, bytesSoFar, offset,
                 n, lastRest, attempts, closes>>

\* Client.canResume after getIdleConn:
\* `return pconn.hasFeatureWithArg("REST", "STREAM")`
ClientCanResume(p) ==
  /\ pc[p] = "got"
  /\ op[p] \in XferOps
  /\ stage = "canResume"
  /\ canResume' = hasFeatureWithArg(features[pconn[p]], "REST", "STREAM")
  /\ returnConn(pconn[p])
  /\ pconn' = Upd(pconn, p, NoConn)
  /\ pc' = Upd(pc, p, "after")
  /\ UNCHANGED <<numOpenConns, mu, connIdx, closed, allCons, broken,
                 sockClosed, op, reg, lateCall, connVars, res, cons, hosts, srvFeat, features,
                 fileLen, seeker, remote, sink, srcPos, stage, size,
                 bytesSoFar, offset, n, err, lastRest, attempts, closes,
                 trouble>>

\* a variant of Advance that forgets the bytes of the attempt
AdvanceNone(sofar, copied) == sofar

\* `bytesSoFar += n`
Advance(sofar, copied) == sofar + copied

\* a variant of StoreCanResume that accepts a source without Seek
StoreCanResumeAny(resumable, isSeeker) == resumable

\* Store: `seeker, ok := src.(io.Seeker); if !ok { canResume = false }`
StoreCanResume(resumable, isSeeker) == resumable /\ isSeeker

\* a variant of NoProgress that takes every attempt for one that moved bytes
NoProgressNever(copied) == FALSE

\* `else if n == 0 { return err }`
NoProgress(copied) == copied = 0

\* a variant of Retry that goes round again after an attempt without a byte
RetryAny(copied, resumable) == resumable

\* whether Retrieve / Store go round their loop again after a failed attempt
\* that copied `copied` bytes: `else if n == 0 { return err } else if
\* !canResume { return ... (can't resume) }`
Retry(copied, resumable) == copied # 0 /\ resumable

\* a variant of SizeMismatch that accepts every size
SizeMismatchNever(reported, total) == FALSE

\* the final check of the transferred size against the reported one:
\* `size != -1 && bytesSoFar != size`
SizeMismatch(reported, total) == reported # -1 /\ total # reported

\* the ghost count of attempts saturates once a retry has been seen
CountAttempt(a) == IF a < 2 THEN a + 1 ELSE a

\* a variant of NextOffset that starts every attempt at the beginning
NextOffsetZero(total) == 0

\* the offset of the next attempt of Retrieve:
\* `c.transferFromOffset(path, dest, nil, bytesSoFar)`
NextOffset(total) == total

\* Retrieve between its calls: after c.size, after c.canResume, and after
\* each transferFromOffset (bytesSoFar += n, then the choice between the
\* end of the loop, an error return and another attempt)
RetrieveNext(p) ==
  /\ pc[p] = "after"
  /\ op[p] = "Retrieve"
  /\ LET total == IF stage = "xfer" THEN Advance(bytesSoFar, n) ELSE bytesSoFar
         verdict ==
           CASE stage = "size" -> IF err # Nil THEN "return" ELSE "canResume"
             [] stage = "canResume" -> "transfer"
             [] stage = "xfer" ->
                  IF err = Nil
                  THEN IF SizeMismatch(size, total) THEN "mismatch" ELSE "ok"
                  ELSE IF Retry(n, canResume) THEN "transfer"
                  ELSE IF NoProgress(n) THEN "return" ELSE "cant"
     IN /\ bytesSoFar' = total
        /\ err' = (CASE verdict = "mismatch" -> Errorf("mismatch")
                     [] verdict = "cant" -> Errorf("can't resume")
                     [] verdict \in {"canResume", "transfer"} -> Nil
                     [] OTHER -> err)
        /\ n' = (IF verdict \in {"canResume", "transfer"} THEN 0 ELSE n)
        /\ stage' = (CASE verdict = "canResume" -> "canResume"
                       [] verdict = "transfer" -> "xfer"
                       [] OTHER -> stage)
        /\ offset' = (IF verdict = "transfer" THEN NextOffset(total) ELSE offset)
        /\ lastRest' = (IF verdict = "transfer" THEN -1 ELSE lastRest)
        /\ attempts' = (IF verdict = "transfer" THEN CountAttempt(attempts)
                        ELSE attempts)
        /\ pc' = Upd(pc, p, IF verdict \in {"canResume", "transfer"}
                            THEN "gi_fast" ELSE "done")
        /\ res' = Upd(res, p, CASE verdict = "ok" -> "ok"
                                [] verdict \in {"canResume", "transfer"} -> res[p]
                                [] OTHER -> "err")
  /\ UNCHANGED <<poolVars, broken, sockClosed, op, pconn, reg, lateCall, connVars, cons, hosts,
                 srvFeat, features, fileLen, seeker, remote, sink, srcPos,
                 size, canResume, closes, trouble>>

\* a variant of SeekTo that rewinds the source
SeekToStart(reported) == 0

\* `seeker.Seek(size, os.SEEK_SET)`: the read position of src after it
SeekTo(reported) == reported

\* Store between its calls: `if !ok { canResume = false }` after
\* c.canResume; after each transferFromOffset; after the c.size of a resume
\* (Seek(size), bytesSoFar = size); after the final c.size
StoreNext(p) ==
  /\ pc[p] = "after"
  /\ op[p] = "Store"
  /\ \E seekErr \in BOOLEAN :
       LET total == IF stage = "xfer" THEN Advance(bytesSoFar, n) ELSE bytesSoFar
           verdict ==
             CASE stage = "canResume" -> "transfer"
               [] stage = "xfer" ->
                    IF err = Nil THEN "fsize"
                    ELSE IF Retry(n, canResume)
                         THEN IF total > 0 THEN "resize" ELSE "transfer"
                    ELSE IF NoProgress(n) THEN "return" ELSE "cant"
               [] stage = "resize" ->
                    IF err # Nil THEN "return"
                    ELSE IF size = -1 \/ seekErr THEN "resumefail"
                    ELSE "seek"
               [] stage = "fsize" ->
                    IF err # Nil THEN "return"
                    ELSE IF SizeMismatch(size, total) THEN "mismatch" ELSE "ok"
           goon == verdict \in {"transfer", "seek", "resize", "fsize"}
       IN /\ seekErr => stage = "resize" /\ err = Nil /\ size # -1
          /\ canResume' = (IF stage = "canResume"
                           THEN StoreCanResume(canResume, seeker)
                           ELSE canResume)
          /\ bytesSoFar' = (IF verdict = "seek" THEN size ELSE total)
          /\ srcPos' = (IF verdict = "seek" THEN SeekTo(size) ELSE srcPos)
          /\ err' = (CASE verdict = "mismatch" -> Errorf("mismatch")
                       [] verdict = "cant" -> Errorf("can't resume")
                       [] verdict = "resumefail" -> Errorf("resume failed")
                       [] goon -> Nil
                       [] OTHER -> err)
          /\ n' = (IF goon THEN 0 ELSE n)
          /\ stage' = (CASE verdict \in {"transfer", "seek"} -> "xfer"
                         [] verdict = "resize" -> "resize"
                         [] verdict = "fsize" -> "fsize"
                         [] OTHER -> stage)
          /\ offset' = (CASE verdict = "transfer" -> total
                          [] verdict = "seek" -> size
                          [] OTHER -> offset)
          /\ lastRest' = (IF verdict \in {"transfer", "seek"} THEN -1 ELSE lastRest)
          /\ attempts' = (IF verdict \in {"transfer", "seek"}
                          THEN CountAttempt(attempts) ELSE attempts)
          /\ trouble' = (IF seekErr THEN Worse(trouble, "env") ELSE trouble)
          /\ pc' = Upd(pc, p, IF goon THEN "gi_fast" ELSE "done")
          /\ res' = Upd(res, p, IF goon THEN res[p]
                                ELSE IF verdict = "ok" THEN "ok" ELSE "err")
  /\ UNCHANGED <<poolVars, broken, sockClosed, op, pconn, reg, lateCall, connVars, cons, hosts,
                 srvFeat, features, fileLen, seeker, remote, sink, size,
                 closes>>

\* a return of transferFromOffset with (copied, e): the deferred
\* c.returnConn(pconn) runs
TransferReturn(p, copied, e) ==
  /\ n' = copied
  /\ err' = e
  /\ returnConn(pconn[p])
  /\ pconn' = Upd(pconn, p, NoConn)
  /\ pc' = Upd(pc, p, "after")

\* a command of transferFromOffset is refused or fails: `return 0, err`
SetupFails(p, code, good, cmd) ==
  /\ broken' = MarkBroken(pconn[p], code)
  /\ trouble' = Worse(trouble, ReplyTrouble(pconn[p], code, good))
  /\ TransferReturn(p, 0, ErrOf(code, cmd))

\* pconn.openDataConn() fails: `return 0, err`
DataConnFails(p, dc) ==
  /\ broken' = (IF dc = "io" THEN broken \cup {pconn[p]} ELSE broken)
  /\ trouble' = Worse(trouble, IF dc = "io" /\ pconn[p] \in sockClosed
                               THEN "closeall" ELSE "env")
  /\ TransferReturn(p, 0, IF dc = "reply" THEN FtpErr(replyFileError, "PASV")
                          ELSE IOErr)

\* `cmd = "STOR"` when src is given, `cmd = "RETR"` when dest is
TransferCmd(o) == IF o = "Retrieve" THEN "RETR" ELSE "STOR"

\* transferFromOffset from getIdleConn to io.Copy: pconn.setType("I");
\* `if offset > 0` the REST expecting 350; pconn.openDataConn(); RETR or
\* STOR expecting 1xx.  The first of them that fails returns
TransferSetup(p) ==
  /\ pc[p] = "got"
  /\ op[p] \in XferOps
  /\ stage = "xfer"
  /\ \E type \in Replies(pconn[p], replyCommandOkay) :
       IF ~ExpectedOk(replyCommandOkay, type)
       THEN SetupFails(p, type, replyCommandOkay, "TYPE") /\ UNCHANGED lastRest
       ELSE \E rest \in (IF offset > 0
                         THEN Replies(pconn[p], replyFileActionPending)
                         ELSE {replyFileActionPending}) :
         /\ lastRest' = (IF offset > 0 THEN offset ELSE lastRest)
         /\ IF ~ExpectedOk(replyFileActionPending, rest)
            THEN SetupFails(p, rest, replyFileActionPending, "REST")
            ELSE \E dc \in DataConnOutcomes(pconn[p]) :
              IF dc # "ok"
              THEN DataConnFails(p, dc)
              ELSE \E cmd \in Replies(pconn[p], replyFileStatusOkay) :
                IF ~ExpectedOk(replyGroupPreliminaryReply, cmd)
                THEN SetupFails(p, cmd, replyFileStatusOkay, TransferCmd(op[p]))
                ELSE /\ pc' = Upd(pc, p, "x_copy")
                     /\ UNCHANGED <<freeConnCh, pconn, n, err, broken, trouble>>
  /\ UNCHANGED <<numOpenConns, mu, connIdx, closed, allCons, sockClosed, op,
                 reg, lateCall, connVars, res, cons, hosts, srvFeat, features, fileLen, seeker,
                 remote, sink, srcPos, stage, size, canResume, bytesSoFar,
                 offset, attempts, closes>>

\* where the server starts in the file: the marker of the REST of this
\* attempt, the beginning without one
Marker == IF lastRest >= 0 THEN lastRest ELSE 0

\* the bytes io.Copy(dest, src) has before it: RETR sends the file from the
\* marker, STOR reads src from its position
CopyData(o) ==
  LET from == IF o = "Retrieve" THEN Marker ELSE srcPos
  IN IF from >= fileLen THEN <<>> ELSE SubSeq(File(fileLen), from + 1, fileLen)

\* the file on the server once STOR has received the bytes d: what was there
\* up to the marker (zero bytes past the end of the file), then d
ServerStore(d) ==
  [i \in 1..Marker |-> IF i <= Len(remote) THEN remote[i] ELSE 0] \o d

\* io.Copy returns (k, err): `pconn.broken = true; return n, err`.  A write
\* to dest needs a byte to write; a failed upload may have lost the last
\* byte written to the data socket
CopyFails(p, kinds) ==
  \E o \in kinds, k \in 0..Len(CopyData(op[p])), lost \in BOOLEAN :
    /\ o = "write" => Len(CopyData(op[p])) >= 1
    /\ lost => op[p] = "Store" /\ k >= 1
    /\ IF op[p] = "Retrieve"
       THEN /\ sink' = sink \o SubSeq(CopyData(op[p]), 1, k)
            /\ UNCHANGED <<remote, srcPos>>
       ELSE /\ remote' = ServerStore(SubSeq(CopyData(op[p]), 1,
                                            IF lost THEN k - 1 ELSE k))
            /\ srcPos' = srcPos + k
            /\ UNCHANGED sink
    /\ trouble' = Worse(trouble, IF o = "write" /\ k >= 1 /\ ~lost
                                  THEN "sink" ELSE "env")
    /\ broken' = broken \cup {pconn[p]}
    /\ TransferReturn(p, k, Errorf(o))

\* `n, err := io.Copy(dest, src)` returns an error: dest.Write failed, or
\* the read from src did
TransferCopyFail(p) ==
  /\ pc[p] = "x_copy"
  /\ CopyFails(p, IF op[p] = "Retrieve" THEN {"write", "read"} ELSE {"write"})
  /\ UNCHANGED <<numOpenConns, mu, connIdx, closed, allCons, sockClosed, op,
                 reg, lateCall, connVars, res, cons, hosts, srvFeat, features, fileLen, seeker,
                 stage, size, canResume, bytesSoFar, offset, lastRest,
                 attempts, closes>>

\* io.Copy returns (k, nil): src reported EOF after k bytes (a download
\* whose data socket closes early ends the same way); dc.Close();
\* `code, msg, err := pconn.readResponse(0)`: an I/O error or a code that is
\* not 2xx is returned with n
TransferCopyDone(p) ==
  /\ pc[p] = "x_copy"
  /\ \E k \in 0..Len(CopyData(op[p])),
        code \in Replies(pconn[p], replyClosingDataConnection) :
       /\ IF op[p] = "Retrieve"
          THEN /\ sink' = sink \o SubSeq(CopyData(op[p]), 1, k)
               /\ UNCHANGED <<remote, srcPos>>
          ELSE /\ k = Len(CopyData(op[p]))
               /\ remote' = ServerStore(CopyData(op[p]))
               /\ srcPos' = fileLen
               /\ UNCHANGED sink
       /\ broken' = MarkBroken(pconn[p], code)
       /\ trouble' = Worse(trouble,
                       IF k < Len(CopyData(op[p])) THEN "env"
                       ELSE ReplyTrouble(pconn[p], code, replyClosingDataConnection))
       /\ TransferReturn(p, k, IF code = IOError THEN IOErr
                               ELSE IF positiveCompletionReply(code) THEN Nil
                               ELSE Errorf("unexpected response"))
  /\ UNCHANGED <<numOpenConns, mu, connIdx, closed, allCons, sockClosed, op,
                 reg, lateCall, connVars, res, cons, hosts, srvFeat, features, fileLen, seeker,
                 stage, size, canResume, bytesSoFar, offset, lastRest,
                 attempts, closes>>

\* the callback under io.Copy (dest.Write or src.Read) calls c.Close(): the
\* caller of the transfer runs the steps of Close while it holds its
\* connection
TransferCloseAll(p) ==
  /\ pc[p] = "x_copy"
  /\ closes < MaxCloses
  /\ Len(CopyData(op[p])) >= 1
  /\ closes' = closes + 1
  /\ trouble' = Worse(trouble, "closeall")
  /\ pc' = Upd(pc, p, "cl_lock")
  /\ UNCHANGED <<poolVars, broken, sockClosed, op, pconn, reg, lateCall, connVars, res, cons,
                 hosts, srvFeat, features, fileLen, seeker, remote, sink,
                 srcPos, stage, size, canResume, bytesSoFar, offset, n, err,
                 lastRest, attempts>>

\* Close() has returned in the callback: `c.closed = false`, and the
\* callback returns an error, which io.Copy returns
CloseAllDone(p) ==
  /\ pc[p] = "cl_rm"
  /\ cons[p] = {}
  /\ op[p] \in XferOps
  /\ closed' = FALSE
  /\ CopyFails(p, {"write"})
  /\ UNCHANGED <<numOpenConns, mu, connIdx, allCons, sockClosed, op, reg, lateCall, connVars,
                 res, cons, hosts, srvFeat, features, fileLen, seeker, stage,
                 size, canResume, bytesSoFar, offset, lastRest, attempts,
                 closes>>

\* ---------------------------------------------------------- specification
\* a step that touches only the caller's own locals is taken before
\* anything else is scheduled: the result of an operation, and the choice
\* Retrieve / Store make between two calls
LocalNext == {"done", "after"}

Sched == \A q \in Procs : pc[q] \notin LocalNext

Next ==
  \/ \E p \in Procs : Sched /\ StartOp(p)
  \/ \E p \in Procs : Sched /\ GetIdleFast(p)
  \/ \E p \in Procs : Sched /\ DiscardDec(p)
  \/ \E p \in Procs : Sched /\ DiscardRemove(p)
  \/ \E p \in Procs : Sched /\ GetIdleLock(p)
  \/ \E p \in Procs : Sched /\ GetIdleStore(p)
  \/ \E p \in Procs : Sched /\ OpenConnFail(p)
  \/ \E p \in Procs : Sched /\ OpenConnRegister(p)
  \/ \E p \in Procs : Sched /\ OpenFailDec(p)
  \/ \E p \in Procs : Sched /\ GetIdleWait(p)
  \/ \E p \in Procs : Sched /\ FsCommand(p)
  \/ \E p \in Procs : Sched /\ Rename(p)
  \/ \E p \in Procs : Sched /\ ControlStringList(p)
  \/ \E p \in Procs : Sched /\ DataStringList(p)
  \/ \E p \in Procs : Sched /\ StartClose(p)
  \/ \E p \in Procs : Sched /\ CloseLock(p)
  \/ \E p \in Procs : Sched /\ CloseRemove(p)
  \/ \E p \in Procs : Sched /\ CloseDone(p)
  \/ \E p \in Procs : Return(p)

Spec == Init /\ [][Next]_vars

\* a client with one or several hosts, a server with one of the FEAT maps.
\* The client has been used before: its first connections failed to open
\* (openConn closed them and getIdleConn took them off the count), which
\* leaves MaxConnections connections for the run
InitXfer ==
  /\ freeConnCh = <<>>
  /\ numOpenConns = 0
  /\ mu = NoProc
  /\ connIdx = MaxIdx - MaxConnections
  /\ closed = FALSE
  /\ allCons = {}
  /\ broken = {}
  /\ sockClosed = 1..(MaxIdx - MaxConnections)
  /\ pc = [p \in Procs |-> "idle"]
  /\ op = [p \in Procs |-> "none"]
  /\ pconn = [p \in Procs |-> NoConn]
  /\ reg = [p \in Procs |-> 0]
  /\ res = [p \in Procs |-> "none"]
  /\ cons = [p \in Procs |-> {}]
  /\ lateCall = {}
  /\ ConnIdle
  /\ hosts \in 1..MaxHosts
  /\ dialled = DialledUpTo(connIdx, hosts)
  /\ srvFeat \in FeatMaps
  /\ XferInit

\* one caller runs Retrieve and Store, the others Stat, NameList and ReadDir
NextXfer ==
  \/ \E p \in Procs : Sched /\ StartRetrieve(p)
  \/ \E p \in Procs : Sched /\ StartStore(p)
  \/ \E p \in Procs \ {Mover} : Sched /\ StartOp(p)
  \/ \E p \in Procs : Sched /\ GetIdleFast(p)
  \/ \E p \in Procs : Sched /\ DiscardDec(p)
  \/ \E p \in Procs : Sched /\ DiscardRemove(p)
  \/ \E p \in Procs : Sched /\ GetIdleLock(p)
  \/ \E p \in Procs : Sched /\ GetIdleStore(p)
  \/ \E p \in Procs : Sched /\ OpenConnFail(p)
  \/ \E p \in Procs : Sched /\ OpenConnRegister(p)
  \/ \E p \in Procs : Sched /\ OpenFailDec(p)
  \/ \E p \in Procs : Sched /\ GetIdleWait(p)
  \/ \E p \in Procs : Sched /\ ControlStringList(p)
  \/ \E p \in Procs : Sched /\ DataStringList(p)
  \/ \E p \in Procs : Sched /\ ClientSize(p)
  \/ \E p \in Procs : Sched /\ ClientCanResume(p)
  \/ \E p \in Procs : Sched /\ TransferSetup(p)
  \/ \E p \in Procs : Sched /\ TransferCopyDone(p)
  \/ \E p \in Procs : Sched /\ TransferCopyFail(p)
  \/ \E p \in Procs : Sched /\ TransferCloseAll(p)
  \/ \E p \in Procs : Sched /\ CloseLock(p)
  \/ \E p \in Procs : Sched /\ CloseRemove(p)
  \/ \E p \in Procs : Sched /\ CloseAllDone(p)
  \/ \E p \in Procs : RetrieveNext(p)
  \/ \E p \in Procs : StoreNext(p)
  \/ \E p \in Procs : Return(p)

SpecXfer == InitXfer /\ [][NextXfer]_vars

\* ------------------------------------------- Retrieve, seen by the pool
\* as many callers as Config.MaxConnections times the hosts of the client
Callers == 1..(MaxConnections * MaxHosts)

\* a client with MaxHosts hosts and no connection (as in InitXfer, its first
\* opens failed, which leaves MaxConnections connections for the run);
\* every caller has called Retrieve and is at its first statement,
\* `size, err := c.size(path)`, whose first statement is c.getIdleConn()
InitCallers ==
  /\ freeConnCh = <<>>
  /\ numOpenConns = 0
  /\ mu = NoProc
  /\ connIdx = MaxIdx - MaxConnections
  /\ closed = FALSE
  /\ allCons = {}
  /\ broken = {}
  /\ sockClosed = 1..(MaxIdx - MaxConnections)
  /\ pc = [p \in Callers |-> "gi_fast"]
  /\ op = [p \in Callers |-> "size"]
  /\ pconn = [p \in Callers |-> NoConn]
  /\ reg = [p \in Callers |-> 0]
  /\ res = [p \in Callers |-> "none"]
  /\ cons = [p \in Callers |-> {}]
  /\ lateCall = {}
  /\ hosts = MaxHosts
  /\ dialled = DialledUpTo(connIdx, hosts)
  /\ srvFeat = {<<"SIZE", "">>, <<"REST", "STREAM">>}
  /\ XferInit
  /\ ConnIdle

\* a call of Retrieve on the connection it got returns: the deferred
\* c.returnConn(pconn) runs; res keeps whether the error is nil
CallReturns(p, ok) ==
  /\ res' = Upd(res, p, IF ok THEN "ok" ELSE "none")
  /\ returnConn(pconn[p])
  /\ pconn' = Upd(pconn, p, NoConn)
  /\ pc' = Upd(pc, p, "after")
  /\ UNCHANGED <<numOpenConns, mu, connIdx, closed, allCons, sockClosed, op,
                 reg, lateCall, connVars, cons, xferVars>>

\* Client.size on its connection: the SIZE command (the server has the
\* feature); only an I/O error is an error of the call
SizeCall(p) ==
  /\ pc[p] = "got"
  /\ op[p] = "size"
  /\ \E code \in Replies(pconn[p], replyFileStatus) :
       /\ broken' = MarkBroken(pconn[p], code)
       /\ CallReturns(p, code # IOError)

\* Client.canResume on its connection: no command, no error
CanResumeCall(p) ==
  /\ pc[p] = "got"
  /\ op[p] = "canResume"
  /\ UNCHANGED broken
  /\ CallReturns(p, TRUE)

\* Client.transferFromOffset on its connection, from TYPE I to the 226
\* after the copy: the server sends the whole file once RETR is accepted,
\* so the call returns (n, nil), or (0, err) for the exchange that failed
\* (code is what that exchange got, or the final 226)
TransferCall(p) ==
  /\ pc[p] = "got"
  /\ op[p] = "transferFromOffset"
  /\ \E code \in Replies(pconn[p], replyClosingDataConnection) :
       /\ broken' = MarkBroken(pconn[p], code)
       /\ CallReturns(p, code = replyClosingDataConnection)

\* Retrieve between its calls: an error of c.size or of the transfer is
\* returned, c.canResume has none; after a transfer without error the loop
\* breaks and Retrieve returns nil
RetrieveStep(p) ==
  /\ pc[p] = "after"
  /\ LET failed == res[p] # "ok" /\ op[p] # "canResume"
         ends == failed \/ op[p] = "transferFromOffset"
     IN /\ pc' = Upd(pc, p, IF ends THEN "done" ELSE "gi_fast")
        /\ res' = Upd(res, p, IF failed THEN "err" ELSE IF ends THEN "ok" ELSE "none")
        /\ op' = Upd(op, p, IF ends THEN "Retrieve"
                            ELSE IF op[p] = "size" THEN "canResume"
                            ELSE "transferFromOffset")
  /\ UNCHANGED <<poolVars, broken, sockClosed, pconn, reg, lateCall, connVars,
                 cons, xferVars>>

\* the choice Retrieve makes between two calls is taken first
Between == \A q \in DOMAIN pc : pc[q] # "after"

NextCallers ==
  \/ \E p \in Callers : Between /\ GetIdleFast(p)
  \/ \E p \in Callers : Between /\ DiscardDec(p)
  \/ \E p \in Callers : Between /\ DiscardRemove(p)
  \/ \E p \in Callers : Between /\ GetIdleLock(p)
  \/ \E p \in Callers : Between /\ GetIdleStore(p)
  \/ \E p \in Callers : Between /\ OpenConnFail(p)
  \/ \E p \in Callers : Between /\ OpenConnRegister(p)
  \/ \E p \in Callers : Between /\ GetIdleWait(p)
  \/ \E p \in Callers : Between /\ SizeCall(p)
  \/ \E p \in Callers : Between /\ CanResumeCall(p)
  \/ \E p \in Callers : Between /\ TransferCall(p)
  \/ \E p \in Callers : RetrieveStep(p)

SpecCallers == InitCallers /\ [][NextCallers]_vars

\* ------------------------------------------ more callers than capacity
\* one caller more than Config.MaxConnections
Waiters == 1..(MaxConnections + 1)

\* a new client; each caller will call Stat, NameList or ReadDir once
InitWait ==
  /\ freeConnCh = <<>>
  /\ numOpenConns = 0
  /\ mu = NoProc
  /\ connIdx = 0
  /\ closed = FALSE
  /\ allCons = {}
  /\ broken = {}
  /\ sockClosed = {}
  /\ pc = [p \in Waiters |-> "idle"]
  /\ op = [p \in Waiters |-> "none"]
  /\ pconn = [p \in Waiters |-> NoConn]
  /\ reg = [p \in Waiters |-> 0]
  /\ res = [p \in Waiters |-> "none"]
  /\ cons = [p \in Waiters |-> {}]
  /\ lateCall = {}
  /\ hosts = 1
  /\ dialled = DialledUpTo(connIdx, hosts)
  /\ srvFeat = {<<"SIZE", "">>, <<"REST", "STREAM">>}
  /\ XferInit
  /\ ConnIdle

NextWait ==
  \/ \E p \in Waiters : StartOp(p)
  \/ \E p \in Waiters : GetIdleFast(p)
  \/ \E p \in Waiters : DiscardDec(p)
  \/ \E p \in Waiters : DiscardRemove(p)
  \/ \E p \in Waiters : GetIdleLock(p)
  \/ \E p \in Waiters : GetIdleStore(p)
  \/ \E p \in Waiters : OpenConnFail(p)
  \/ \E p \in Waiters : OpenConnRegister(p)
  \/ \E p \in Waiters : GetIdleWait(p)
  \/ \E p \in Waiters : ControlStringList(p)

\* the Go scheduler runs every goroutine that can run; sync.Mutex hands the
\* lock to a goroutine that keeps waiting for it, and a channel wakes its
\* blocked receivers in the order they came, so a caller that can go on
\* again and again does go on.  No caller has to call the client, and the
\* caller that holds a connection finishes its exchange and releases it
FairWait ==
  \A p \in Waiters :
    /\ WF_vars(GetIdleFast(p))
    /\ WF_vars(DiscardDec(p))
    /\ SF_vars(DiscardRemove(p))
    /\ SF_vars(GetIdleLock(p))
    /\ WF_vars(GetIdleStore(p))
    /\ SF_vars(OpenConnFail(p) \/ OpenConnRegister(p))
    /\ SF_vars(GetIdleWait(p))
    /\ WF_vars(ControlStringList(p))

SpecWait == InitWait /\ [][NextWait]_vars /\ FairWait

\* ----------------------------------------------- strings and package fmt
\* a Go string is the sequence of its symbols: characters, and words (a
\* command verb, a fixed text) that hold no '%', no digit and no space
Digits == {"0", "1", "2", "3", "4", "5", "6", "7", "8", "9"}

\* the digits between a '%' and its verb
RECURSIVE LeadingDigits(_)
LeadingDigits(s) ==
  IF s # <<>> /\ Head(s) \in Digits THEN 1 + LeadingDigits(Tail(s)) ELSE 0

DigitVal(d) == CHOOSE k \in 0..9 : ToString(k) = d

RECURSIVE Atoi(_)
Atoi(ds) ==
  IF ds = <<>> THEN 0
  ELSE 10 * Atoi(SubSeq(ds, 1, Len(ds) - 1)) + DigitVal(ds[Len(ds)])

\* strconv.Itoa for the `%d` of a reply code
Itoa(k) == <<ToString(k)>>

\* a width pads on the left
Pad(s, w) == IF w > Len(s) THEN [i \in 1..(w - Len(s)) |-> " "] \o s ELSE s

\* fmt.Sprintf(f, args...): text is copied; '%', digits, verb: "%%" gives
\* '%', a verb without an argument left gives "%!v(MISSING)", a '%' at the
\* end "%!(NOVERB)", arguments left over "%!(EXTRA ...)"
RECURSIVE Sprintf(_, _)
Sprintf(f, args) ==
  IF f = <<>>
  THEN IF args = <<>> THEN <<>> ELSE <<"%", "!", "(EXTRA)">>
  ELSE IF Head(f) # "%" THEN <<Head(f)>> \o Sprintf(Tail(f), args)
  ELSE LET w == LeadingDigits(Tail(f))
           after == SubSeq(f, w + 2, Len(f))
       IN IF after = <<>>
          THEN <<"%", "!", "(NOVERB)">> \o Sprintf(<<>>, args)
          ELSE IF Head(after) = "%"
          THEN <<"%">> \o Sprintf(Tail(after), args)
          ELSE IF args = <<>>
          THEN <<"%", "!", Head(after), "(MISSING)">> \o Sprintf(Tail(after), args)
          ELSE IF Head(after) \in {"s", "d", "v"}
          THEN Pad(Head(args), Atoi(SubSeq(f, 2, w + 1)))
                 \o Sprintf(Tail(after), Tail(args))
          ELSE <<"%", "!", Head(after), "(">> \o Head(args) \o <<")">>
                 \o Sprintf(Tail(after), Tail(args))

\* textproto.Writer.PrintfLine(format, args...): fmt.Fprintf(w, format,
\* args...), then "\r\n"
PrintfLine(f, args) == Sprintf(f, args) \o <<"\r\n">>

\* strings.HasPrefix
HasPrefix(s, prefix) ==
  Len(s) >= Len(prefix) /\ SubSeq(s, 1, Len(prefix)) = prefix

\* strings.Index for a separator of one symbol: 0 when it is absent
Index(s, sep) ==
  IF \E i \in DOMAIN s : s[i] = sep
  THEN CHOOSE i \in DOMAIN s : s[i] = sep /\ \A j \in 1..(i - 1) : s[j] # sep
  ELSE 0

\* strings.Split(s, sep)
RECURSIVE Split(_, _)
Split(s, sep) ==
  IF Index(s, sep) = 0 THEN <<s>>
  ELSE <<SubSeq(s, 1, Index(s, sep) - 1)>>
         \o Split(SubSeq(s, Index(s, sep) + 1, Len(s)), sep)

\* strings.SplitN(s, sep, 2)
SplitN2(s, sep) ==
  IF Index(s, sep) = 0 THEN <<s>>
  ELSE <<SubSeq(s, 1, Index(s, sep) - 1), SubSeq(s, Index(s, sep) + 1, Len(s))>>

White == {" ", "\t", "\r", "\n"}

\* strings.TrimSpace
RECURSIVE TrimSpace(_)
TrimSpace(s) ==
  IF s = <<>> THEN s
  ELSE IF Head(s) \in White THEN TrimSpace(Tail(s))
  ELSE IF s[Len(s)] \in White THEN TrimSpace(SubSeq(s, 1, Len(s) - 1))
  ELSE s

\* strings.ToUpper on the words of the model
UpperSym(x) ==
  CASE x = "eprt" -> "EPRT"
    [] x = "epsv" -> "EPSV"
    [] x = "stream" -> "STREAM"
    [] OTHER -> x

ToUpper(s) == [i \in DOMAIN s |-> UpperSym(s[i])]

\* strings.Join(lines, "\n")
RECURSIVE Join(_)
Join(ls) ==
  IF ls = <<>> THEN <<>>
  ELSE IF Len(ls) = 1 THEN ls[1]
  ELSE ls[1] \o <<"\n">> \o Join(Tail(ls))

\* ------------------------------------------------ persistentConn, alone
\* outcome of an exchange: the reply code, IOError when the read of the
\* reply fails, WriteError when the write of the command does
WriteError == -1
replySystemStatus == 211
replyServiceReady == 220
replyUserLoggedIn == 230
replyAuthOkayNoDataNeeded == 234
replyNeedPassword == 331
replyServiceNotAvailable == 421
replyNotLoggedIn == 530

\* ftpError{code, msg, err, temporary}; NoError is nil
ftpError(code, text, cause, temp) ==
  [code |-> code, msg |-> text, err |-> cause, temporary |-> temp]

NoError == ftpError(0, <<>>, "nil", FALSE)

\* a variant of ioError that does not set the temporary flag
ioErrorPermanent(what) == ftpError(0, <<>>, what, FALSE)

\* `ftpError{err: fmt.Errorf("error ...: %s", err), temporary: true}`
ioError(what) == ftpError(0, <<>>, what, TRUE)

\* Error.Temporary(): the flag, or a transient (4xx) reply code
Temporary(e) == e.temporary \/ e.code \div 100 = 4

\* Error.Code()
Code(e) == e.code

\* pconn.debug(f, args...): the line after its "goftp: <time> #<idx> " head
debug(f, args) == Sprintf(f, args)

\* a variant of LogName that logs every command as it is
LogNameRaw(cmd) == cmd

\* `logName := cmd; if strings.HasPrefix(cmd, "PASS") { logName = "PASS ******" }`
LogName(cmd) ==
  IF HasPrefix(cmd, <<"PASS">>) THEN <<"PASS", " ", "******">> ELSE cmd

\* the text of a reply other than the one to FEAT
ReplyText == <<"text">>

\* a variant of readResponse that leaves pconn.broken alone
readResponseQuiet(out, text) ==
  IF out = IOError
  THEN [code |-> 0, msg |-> <<>>, err |-> ioError("error reading response"),
        log |-> <<debug(<<"error reading response: ", "%", "s">>, <<<<"EOF">>>>)>>,
        broken |-> FALSE]
  ELSE [code |-> out, msg |-> text, err |-> NoError, log |-> <<>>,
        broken |-> FALSE]

\* persistentConn.readResponse with outcome out; broken tells whether it
\* has set pconn.broken
readResponse(out, text) ==
  IF out = IOError
  THEN [code |-> 0, msg |-> <<>>, err |-> ioError("error reading response"),
        log |-> <<debug(<<"error reading response: ", "%", "s">>, <<<<"EOF">>>>)>>,
        broken |-> TRUE]
  ELSE [code |-> out, msg |-> text, err |-> NoError, log |-> <<>>,
        broken |-> FALSE]

\* persistentConn.sendCommand(f, args...) with outcome out: the command, the
\* line PrintfLine writes, the debug lines, and (code, msg, err)
sendCommand(f, args, out, text) ==
  LET cmd == Sprintf(f, args)
      sending == debug(<<"sending command ", "%", "s">>, <<LogName(cmd)>>)
      rsp == readResponse(out, text)
  IN IF out = WriteError
     THEN [cmd |-> cmd, line |-> PrintfLine(cmd, <<>>), code |-> 0, msg |-> <<>>,
           err |-> ioError("error writing command"),
           log |-> <<sending,
                     debug(<<"error sending command \"", "%", "s", "\": ", "%", "s">>,
                           <<LogName(cmd), <<"EPIPE">>>>)>>,
           broken |-> TRUE]
     ELSE [cmd |-> cmd, line |-> PrintfLine(cmd, <<>>), code |-> rsp.code,
           msg |-> rsp.msg, err |-> rsp.err, broken |-> rsp.broken,
           log |-> <<sending>> \o rsp.log \o
                   (IF rsp.err # NoError THEN <<>>
                    ELSE <<debug(<<"sent command ", "%", "s", ", got ", "%", "d",
                                   "-", "%", "s">>,
                                 <<LogName(cmd), Itoa(rsp.code), rsp.msg>>)>>)]

\* a variant of sendCommandExpected that accepts every reply
sendCommandUnchecked(expected, r) == r.err

\* persistentConn.sendCommandExpected, applied to the result r of sendCommand
sendCommandExpected(expected, r) ==
  IF r.err # NoError THEN r.err
  ELSE IF ~ExpectedOk(expected, r.code) THEN ftpError(r.code, r.msg, "", FALSE)
  ELSE NoError

\* the loop of fetchFeatures over strings.Split(msg, "\n"): `line[0]` of an
\* empty line is out of range and panics; a line that begins with a space
\* sets features[ToUpper(name)] to its argument ("" without one)
RECURSIVE fetchFeaturesLoop(_, _)
fetchFeaturesLoop(ls, feat) ==
  IF ls = <<>> THEN [panic |-> FALSE, features |-> feat]
  ELSE IF Head(ls) = <<>> THEN [panic |-> TRUE, features |-> feat]
  ELSE IF Head(ls)[1] # " " THEN fetchFeaturesLoop(Tail(ls), feat)
  ELSE LET parts == SplitN2(TrimSpace(Head(ls)), " ")
           name == ToUpper(parts[1])
           arg == IF Len(parts) = 1 THEN <<>> ELSE parts[2]
       IN fetchFeaturesLoop(Tail(ls),
            {e \in feat : e[1] # name} \cup {<<name, arg>>})

\* ------------------------------------------------------ inputs (bounded)
MaxPw == 1             \* symbols of a password
MaxStr == 2            \* symbols of a path
MaxLines == 2          \* lines of a FEAT reply

StrSyms == {"a", "%", "4"}

Strs(k) == UNION {[1..m -> StrSyms] : m \in 1..k}

Passwords == Strs(MaxPw)

\* the path of TestRetrieve, and the short ones
EmailPath == <<"email", "%", "4", "0", "m", "ail.com.txt">>

Paths == {EmailPath} \cup Strs(MaxStr)

FeatLines == {<<>>, <<" ", "eprt">>, <<" ", "REST", " ", "stream">>, <<"END">>}

\* the reply of TestEmptyLinesFeat, and the short ones
EmptyLinesFeat ==
  Join(<<<<"Extensions supported:">>, <<" ", "EPRT">>, <<" ", "EPSV">>, <<>>,
         <<"END">>>>)

FeatTexts ==
  {EmptyLinesFeat} \cup {Join(ls) : ls \in UNION {[1..m -> FeatLines] : m \in 1..MaxLines}}

\* what the server may do with a command whose accepted replies are good
Outcomes(good) ==
  {WriteError, IOError, replyServiceNotAvailable, replyNotLoggedIn} \cup good

\* everything of the client but the connection looked at
clientVars == <<poolVars, broken, sockClosed, pc, op, pconn, reg, res, cons,
                xferVars, lateCall>>

\* the control socket is dialled: openConn is about to read the greeting
ConnStart ==
  /\ config \in [TLS : BOOLEAN, User : {<<"anonymous">>}, Password : Passwords]
  /\ password2 = <<>>
  /\ step = "greet"
  /\ tls = FALSE
  /\ wire = <<>>
  /\ log = <<>>
  /\ log2 = <<>>
  /\ featMsg = <<>>
  /\ featureMap = {}
  /\ cerr = NoError

InitConn == PoolInit /\ ConnStart

\* one exchange of the operation that formats f with args (args2 in the
\* second run): r and r2 are what sendCommand returns
\* in the two runs, more the debug lines the caller adds
Exchange(f, args, r, r2, out, more) ==
  /\ wire' = Append(wire, [f |-> f, args |-> args, line |-> r.line,
                           out |-> out, secure |-> tls, msg |-> r.msg])
  /\ log' = log \o r.log \o more
  /\ log2' = log2 \o r2.log \o more

\* openConn: `goto Error` (pconn.close(); return nil, err), or the next step
ConnGoes(e, next) ==
  /\ cerr' = e
  /\ step' = (IF e # NoError THEN "failed" ELSE next)

\* openConn: `_, _, err = pconn.readResponse(replyServiceReady)`
ConnGreeting ==
  /\ step = "greet"
  /\ \E out \in {IOError, replyServiceReady, replyServiceNotAvailable} :
       LET r == readResponse(out, ReplyText)
           e == IF r.err # NoError THEN r.err
                ELSE IF r.code # replyServiceReady
                THEN ftpError(r.code, r.msg, "", FALSE) ELSE NoError
       IN /\ log' = log \o r.log
          /\ log2' = log2 \o r.log
          /\ ConnGoes(e, IF config.TLS THEN "auth" ELSE "user")
  /\ UNCHANGED <<dialled, config, password2, tls, wire, featMsg, featureMap, clientVars>>

\* logInTLS: AUTH TLS expecting 234, then
\* `pconn.setControlConn(tls.Client(pconn.controlConn, ...))`
ConnAuthTLS ==
  /\ step = "auth"
  /\ \E out \in Outcomes({replyAuthOkayNoDataNeeded}) :
       LET r == sendCommand(<<"AUTH TLS">>, <<>>, out, ReplyText)
           e == sendCommandExpected(replyAuthOkayNoDataNeeded, r)
       IN /\ Exchange(<<"AUTH TLS">>, <<>>, r, r, out, <<>>)
          /\ tls' = (e = NoError)
          /\ ConnGoes(e, "user")
  /\ UNCHANGED <<dialled, config, password2, featMsg, featureMap, clientVars>>

\* a variant of AfterLogIn that goes to FEAT at once
AfterLogInFeat == "feat"

\* the step after logIn: logInTLS goes on with PBSZ, openConn with FEAT
AfterLogIn == IF config.TLS THEN "pbsz" ELSE "feat"

\* logIn: nothing without a user; `sendCommand("USER %s", User)`; 331 asks
\* for the password, another code that is not 2xx is the error
ConnUser ==
  /\ step = "user"
  /\ IF config.User = <<>>
     THEN /\ ConnGoes(NoError, AfterLogIn)
          /\ UNCHANGED <<wire, log, log2>>
     ELSE \E out \in Outcomes({replyNeedPassword, replyUserLoggedIn}) :
            LET r == sendCommand(<<"USER", " ", "%", "s">>, <<config.User>>, out,
                                 ReplyText)
                e == IF r.err # NoError THEN r.err
                     ELSE IF r.code = replyNeedPassword THEN NoError
                     ELSE IF ~positiveCompletionReply(r.code)
                     THEN ftpError(r.code, r.msg, "", FALSE) ELSE NoError
            IN /\ Exchange(<<"USER", " ", "%", "s">>, <<config.User>>, r, r, out, <<>>)
               /\ ConnGoes(e, IF r.code = replyNeedPassword THEN "pass"
                              ELSE AfterLogIn)
  /\ UNCHANGED <<dialled, config, password2, tls, featMsg, featureMap, clientVars>>

\* logIn: `sendCommand("PASS %s", Password)`; the second run has a password
\* of its own
ConnPass ==
  /\ step = "pass"
  /\ \E out \in Outcomes({replyUserLoggedIn}), pw2 \in Passwords :
       LET r == sendCommand(<<"PASS", " ", "%", "s">>, <<config.Password>>, out,
                            ReplyText)
           r2 == sendCommand(<<"PASS", " ", "%", "s">>, <<pw2>>, out, ReplyText)
           e == IF r.err # NoError THEN r.err
                ELSE IF ~positiveCompletionReply(r.code)
                THEN ftpError(r.code, r.msg, "", FALSE) ELSE NoError
       IN /\ password2' = pw2
          /\ Exchange(<<"PASS", " ", "%", "s">>, <<config.Password>>, r, r2, out, <<>>)
          /\ ConnGoes(e, AfterLogIn)
  /\ UNCHANGED <<dialled, config, tls, featMsg, featureMap, clientVars>>

\* logInTLS: PBSZ 0, then PROT P, each expecting 2xx
ConnProtect ==
  /\ step \in {"pbsz", "prot"}
  /\ \E out \in Outcomes({replyCommandOkay}) :
       LET what == IF step = "pbsz" THEN <<"PBSZ", " ", "0">> ELSE <<"PROT", " ", "P">>
           r == sendCommand(what, <<>>, out, ReplyText)
           e == sendCommandExpected(replyGroupPositiveCompletion, r)
       IN /\ Exchange(what, <<>>, r, r, out,
                      IF step = "prot" /\ e = NoError
                      THEN <<debug(<<"successfully upgraded to TLS">>, <<>>)>>
                      ELSE <<>>)
          /\ ConnGoes(e, IF step = "pbsz" THEN "prot" ELSE "feat")
  /\ UNCHANGED <<dialled, config, password2, tls, featMsg, featureMap, clientVars>>

\* fetchFeatures: `sendCommand("FEAT")`; a reply that is not 2xx leaves the
\* map empty; else the loop over the lines of the text
ConnFeat ==
  /\ step = "feat"
  /\ \E out \in Outcomes({replySystemStatus}), text \in FeatTexts \cup {ReplyText} :
       LET r == sendCommand(<<"FEAT">>, <<>>, out, text)
           parsed == fetchFeaturesLoop(Split(r.msg, "\n"), {})
       IN /\ text = ReplyText <=> out # replySystemStatus
          /\ Exchange(<<"FEAT">>, <<>>, r, r, out,
                      IF r.err = NoError /\ ~positiveCompletionReply(r.code)
                      THEN <<debug(<<"server doesn't support FEAT: ", "%", "d", "-",
                                     "%", "s">>, <<Itoa(r.code), r.msg>>)>>
                      ELSE <<>>)
          /\ featMsg' = r.msg
          /\ IF r.err # NoError \/ ~positiveCompletionReply(r.code)
             THEN /\ ConnGoes(r.err, "ready")
                  /\ UNCHANGED featureMap
             ELSE /\ featureMap' = parsed.features
                  /\ cerr' = NoError
                  /\ step' = (IF parsed.panic THEN "panic" ELSE "ready")
  /\ UNCHANGED <<dialled, config, password2, tls, clientVars>>

\* transferFromOffset: `sendCommandExpected(replyGroupPreliminaryReply,
\* "%s %s", cmd, path)` on the connection that is set up
ConnTransfer ==
  /\ step = "ready"
  /\ \E out \in Outcomes({replyFileStatusOkay}), o \in XferOps, path \in Paths :
       LET r == sendCommand(<<"%", "s", " ", "%", "s">>, <<<<TransferCmd(o)>>, path>>,
                            out, ReplyText)
       IN /\ Exchange(<<"%", "s", " ", "%", "s">>, <<<<TransferCmd(o)>>, path>>, r, r, out,
                      <<>>)
          /\ cerr' = sendCommandExpected(replyGroupPreliminaryReply, r)
          /\ step' = "sent"
  /\ UNCHANGED <<dialled, config, password2, tls, featMsg, featureMap, clientVars>>

\* dataStringList("NLST %s", path): `cmd := fmt.Sprintf(f, args...)`, then
\* `pconn.sendCommandExpected(replyGroupPreliminaryReply, cmd)`
ConnList ==
  /\ step = "ready"
  /\ \E out \in Outcomes({replyFileStatusOkay}), path \in Paths :
       LET r == sendCommand(Sprintf(<<"NLST", " ", "%", "s">>, <<path>>), <<>>, out,
                            ReplyText)
       IN /\ Exchange(<<"NLST", " ", "%", "s">>, <<path>>, r, r, out, <<>>)
          /\ cerr' = sendCommandExpected(replyGroupPreliminaryReply, r)
          /\ step' = "sent"
  /\ UNCHANGED <<dialled, config, password2, tls, featMsg, featureMap, clientVars>>

NextConn ==
  \/ ConnGreeting
  \/ ConnAuthTLS
  \/ ConnUser
  \/ ConnPass
  \/ ConnProtect
  \/ ConnFeat
  \/ ConnTransfer
  \/ ConnList

SpecConn == InitConn /\ [][NextConn]_vars

\* ------------------------------------- one attempt, command by command
replyEnteringExtendedPassiveMode == 229

\* a variant of RestWanted that sends REST in every attempt
RestWantedAlways(off) == TRUE

\* transferFromOffset: `if offset > 0`
RestWanted(off) == off > 0

\* a variant of MarkFailed that leaves the flag alone
MarkFailedNot(set, c, failed) == set

\* `pconn.broken = true` where a write or a read has failed
MarkFailed(set, c, failed) == IF failed THEN set \cup {c} ELSE set

\* a variant of CopyBroke that leaves the flag alone
CopyBrokeNot(set, c) == set

\* transferFromOffset after io.Copy returned an error: `pconn.broken = true`
CopyBroke(set, c) == set \cup {c}

\* the connection getIdleConn has handed to the attempt
FirstConn == CHOOSE c \in Conns : \A d \in Conns : c <= d

\* the address requestPassive returns
DataHost == <<"host:port">>

\* a call that is not a command of the control connection, as an entry of
\* wire: the dial of the data socket, io.Copy, dc.Close()
Event(name, args, ok, more) ==
  /\ wire' = Append(wire, [f |-> <<name>>, args |-> args, line |-> <<>>,
                           out |-> (IF ok THEN 1 ELSE 0), secure |-> tls,
                           msg |-> <<>>])
  /\ log' = log \o more
  /\ log2' = log2 \o more

\* a variant of Dialled with which no close is deferred
DialledNever == FALSE

\* net.DialTimeout of the data socket returned a connection
Dialled == \E i \in DOMAIN wire : wire[i].f = <<"dial">> /\ wire[i].out = 1

\* what the attempt never touches
attemptFrame == <<numOpenConns, mu, connIdx, closed, allCons, sockClosed, op,
                  reg, res, cons, lateCall, hosts, srvFeat, features,
                  fileLen, seeker, stage, size, canResume, bytesSoFar,
                  offset, attempts, closes, trouble, dialled, config, password2,
                  tls,
                  featMsg, featureMap>>

\* Retrieve or Store is at a call of transferFromOffset(path, dest, src,
\* offset) and getIdleConn has returned the connection: the first attempt
\* (offset 0), or a later one of a transfer that can resume
InitAttempt ==
  /\ freeConnCh = <<>>
  /\ numOpenConns = 1
  /\ mu = NoProc
  /\ connIdx = FirstConn
  /\ closed = FALSE
  /\ allCons = {FirstConn}
  /\ broken = {}
  /\ sockClosed = {}
  /\ pc = [p \in Procs |-> IF p = Mover THEN "got" ELSE "idle"]
  /\ op \in [Procs -> XferOps \cup {"none"}]
  /\ \A p \in Procs : op[p] = "none" <=> p # Mover
  /\ pconn = [p \in Procs |-> IF p = Mover THEN FirstConn ELSE NoConn]
  /\ reg = [p \in Procs |-> 0]
  /\ res = [p \in Procs |-> "none"]
  /\ cons = [p \in Procs |-> {}]
  /\ lateCall = {}
  /\ hosts = 1
  /\ dialled = DialledUpTo(connIdx, hosts)
  /\ canResume \in BOOLEAN
  /\ srvFeat = (IF canResume THEN {<<"REST", "STREAM">>} ELSE {})
  /\ features = [c \in Conns |-> IF c = FirstConn THEN srvFeat ELSE NoFeatures]
  /\ fileLen \in 0..MaxFile
  /\ offset \in 0..fileLen
  /\ offset > 0 => canResume
  /\ seeker = (op[Mover] = "Store" /\ canResume)
  /\ remote = (IF op[Mover] = "Store" THEN File(offset) ELSE <<>>)
  /\ sink = (IF op[Mover] = "Retrieve" THEN File(offset) ELSE <<>>)
  /\ srcPos = (IF op[Mover] = "Store" THEN offset ELSE 0)
  /\ stage = "xfer"
  /\ size \in {-1, IF op[Mover] = "Retrieve" THEN fileLen ELSE offset}
  /\ op[Mover] = "Store" => (size = -1 <=> offset = 0)
  /\ bytesSoFar = offset
  /\ n = 0
  /\ err = Nil
  /\ lastRest = -1
  /\ attempts = (IF offset > 0 THEN 2 ELSE 1)
  /\ closes = 0
  /\ trouble = "none"
  /\ config = [TLS |-> FALSE, User |-> <<>>, Password |-> <<>>]
  /\ password2 = <<>>
  /\ step = "type"
  /\ tls = FALSE
  /\ wire = <<>>
  /\ log = <<>>
  /\ log2 = <<>>
  /\ featMsg = <<>>
  /\ featureMap = {}
  /\ cerr = NoError

\* `return copied, e` of transferFromOffset: the deferred calls are next
AttemptEnds(copied, e, ce) ==
  /\ n' = copied
  /\ err' = e
  /\ cerr' = ce
  /\ step' = "defer"

\* the statement is through without an error
AttemptGoes(next) ==
  /\ cerr' = NoError
  /\ step' = next
  /\ UNCHANGED <<n, err>>

\* the error of a command the server refused or that failed, as Retrieve and
\* Store see it
AttemptErr(out, name) == ErrOf(IF out = WriteError THEN IOError ELSE out, name)

\* `err = pconn.sendCommandExpected(expected, f, args...); if err != nil {
\* return 0, err }`
AttemptCommand(p, f, args, expected, good, name, next) ==
  \E out \in Outcomes(good) :
    LET r == sendCommand(f, args, out, ReplyText)
        e == sendCommandExpected(expected, r)
    IN /\ Exchange(f, args, r, r, out, <<>>)
       /\ broken' = MarkFailed(broken, pconn[p], r.broken)
       /\ IF e # NoError THEN AttemptEnds(0, AttemptErr(out, name), e)
          ELSE AttemptGoes(next)

\* `pconn.setType("I")`: TYPE I expecting 200
AttemptType(p) ==
  /\ pc[p] = "got"
  /\ step = "type"
  /\ AttemptCommand(p, <<"TYPE", " ", "%", "s">>, <<<<"I">>>>, replyCommandOkay,
                    {replyCommandOkay}, "TYPE",
                    IF RestWanted(offset) THEN "rest" ELSE "epsv")
  /\ UNCHANGED <<freeConnCh, pc, pconn, remote, sink, srcPos, lastRest,
                 attemptFrame>>

\* `sendCommandExpected(replyFileActionPending, "REST %d", offset)`
AttemptRest(p) ==
  /\ pc[p] = "got"
  /\ step = "rest"
  /\ AttemptCommand(p, <<"REST", " ", "%", "d">>, <<Itoa(offset)>>,
                    replyFileActionPending, {replyFileActionPending}, "REST",
                    "epsv")
  /\ lastRest' = offset
  /\ UNCHANGED <<freeConnCh, pc, pconn, remote, sink, srcPos, attemptFrame>>

\* the error transferFromOffset logs and returns when openDataConn failed
DataConnError(e) ==
  <<debug(<<"error opening data connection: ", "%", "s">>, <<<<e.err>>>>)>>

\* requestPassive: `sendCommand("EPSV")`; an I/O error is returned; a code
\* other than 229, or a text without |||port|, goes to PASV
AttemptEpsv(p) ==
  /\ pc[p] = "got"
  /\ step = "epsv"
  /\ \E out \in Outcomes({replyEnteringExtendedPassiveMode}), parses \in BOOLEAN :
       LET r == sendCommand(<<"EPSV">>, <<>>, out, ReplyText)
       IN /\ parses => out = replyEnteringExtendedPassiveMode
          /\ broken' = MarkFailed(broken, pconn[p], r.broken)
          /\ IF r.err # NoError
             THEN /\ Exchange(<<"EPSV">>, <<>>, r, r, out, DataConnError(r.err))
                  /\ AttemptEnds(0, IOErr, r.err)
             ELSE IF r.code # replyEnteringExtendedPassiveMode
             THEN /\ Exchange(<<"EPSV">>, <<>>, r, r, out,
                         <<debug(<<"server doesn't support EPSV: ", "%", "d", "-",
                                   "%", "s">>, <<Itoa(r.code), r.msg>>)>>)
                  /\ AttemptGoes("pasv")
             ELSE IF ~parses
             THEN /\ Exchange(<<"EPSV">>, <<>>, r, r, out,
                         <<debug(<<"failed parsing EPSV response: ", "%", "s">>,
                                 <<r.msg>>)>>)
                  /\ AttemptGoes("pasv")
             ELSE /\ Exchange(<<"EPSV">>, <<>>, r, r, out, <<>>)
                  /\ AttemptGoes("dial")
  /\ UNCHANGED <<freeConnCh, pc, pconn, remote, sink, srcPos, lastRest,
                 attemptFrame>>

\* requestPassive: `sendCommandExpected(replyEnteringPassiveMode, "PASV")`,
\* then the search for (h1,h2,h3,h4,p1,p2) in msg, which still is the text
\* of the reply to EPSV
AttemptPasv(p) ==
  /\ pc[p] = "got"
  /\ step = "pasv"
  /\ \E out \in Outcomes({replyEnteringPassiveMode}), parses \in BOOLEAN :
       LET r == sendCommand(<<"PASV">>, <<>>, out, ReplyText)
           e == sendCommandExpected(replyEnteringPassiveMode, r)
           parseError == ftpError(0, <<>>, "error parsing PASV response", FALSE)
       IN /\ parses => out = replyEnteringPassiveMode
          /\ broken' = MarkFailed(broken, pconn[p], r.broken)
          /\ IF e # NoError
             THEN /\ Exchange(<<"PASV">>, <<>>, r, r, out, DataConnError(e))
                  /\ AttemptEnds(0, AttemptErr(out, "PASV"), e)
             ELSE IF ~parses
             THEN /\ Exchange(<<"PASV">>, <<>>, r, r, out, DataConnError(parseError))
                  /\ AttemptEnds(0, Errorf("parse"), parseError)
             ELSE /\ Exchange(<<"PASV">>, <<>>, r, r, out, <<>>)
                  /\ AttemptGoes("dial")
  /\ UNCHANGED <<freeConnCh, pc, pconn, remote, sink, srcPos, lastRest,
                 attemptFrame>>

\* openDataConn: `dc, err := net.DialTimeout("tcp", host, Timeout)`; its
\* error comes back as ftpError{err: err, temporary: isTemporary}
AttemptDial(p) ==
  /\ pc[p] = "got"
  /\ step = "dial"
  /\ \E ok \in BOOLEAN, isTemporary \in BOOLEAN :
       LET opening == debug(<<"opening data connection to ", "%", "s">>,
                            <<DataHost>>)
           e == ftpError(0, <<>>, "dial", isTemporary)
       IN /\ ok => ~isTemporary
          /\ IF ok
             THEN /\ Event("dial", <<DataHost>>, TRUE, <<opening>>)
                  /\ AttemptGoes("cmd")
             ELSE /\ Event("dial", <<DataHost>>, FALSE,
                           <<opening>> \o DataConnError(e))
                  /\ AttemptEnds(0, IOErr, e)
  /\ UNCHANGED <<freeConnCh, broken, pc, pconn, remote, sink, srcPos,
                 lastRest, attemptFrame>>

\* `sendCommandExpected(replyGroupPreliminaryReply, "%s %s", cmd, path)`
AttemptCmd(p) ==
  /\ pc[p] = "got"
  /\ op[p] \in XferOps
  /\ step = "cmd"
  /\ \E path \in Paths :
       AttemptCommand(p, <<"%", "s", " ", "%", "s">>,
                      <<<<TransferCmd(op[p])>>, path>>,
                      replyGroupPreliminaryReply, {replyFileStatusOkay},
                      TransferCmd(op[p]), "copy")
  /\ UNCHANGED <<freeConnCh, pc, pconn, remote, sink, srcPos, lastRest,
                 attemptFrame>>

\* `n, err := io.Copy(dest, src)`: k bytes were copied; on an error
\* `pconn.broken = true; return n, err`.  A download that ends early
\* without an error has k short of the file; an upload without an error has
\* read src to its end
AttemptCopy(p) ==
  /\ pc[p] = "got"
  /\ step = "copy"
  /\ \E k \in 0..Len(CopyData(op[p])), ok \in BOOLEAN :
       /\ (ok /\ op[p] = "Store") => k = Len(CopyData(op[p]))
       /\ IF op[p] = "Retrieve"
          THEN /\ sink' = sink \o SubSeq(CopyData(op[p]), 1, k)
               /\ UNCHANGED <<remote, srcPos>>
          ELSE /\ remote' = ServerStore(SubSeq(CopyData(op[p]), 1, k))
               /\ srcPos' = srcPos + k
               /\ UNCHANGED sink
       /\ Event("io.Copy", <<Itoa(k)>>, ok, <<>>)
       /\ IF ok
          THEN /\ n' = k
               /\ cerr' = NoError
               /\ step' = "close"
               /\ UNCHANGED <<err, broken>>
          ELSE /\ broken' = CopyBroke(broken, pconn[p])
               /\ AttemptEnds(k, Errorf("copy"), ftpError(0, <<>>, "io.Copy", FALSE))
  /\ UNCHANGED <<freeConnCh, pc, pconn, lastRest, attemptFrame>>

\* `err = dc.Close()`; its error is logged and dropped
AttemptClose(p) ==
  /\ pc[p] = "got"
  /\ step = "close"
  /\ \E ok \in BOOLEAN :
       Event("dc.Close", <<>>, ok,
             IF ok THEN <<>>
             ELSE <<debug(<<"error closing data connection: ", "%", "s">>,
                          <<<<"close">>>>)>>)
  /\ step' = "final"
  /\ UNCHANGED <<freeConnCh, broken, pc, pconn, remote, sink, srcPos, n, err,
                 lastRest, cerr, attemptFrame>>

\* `code, msg, err := pconn.readResponse(0)`: `return n, err` on an error,
\* the "unexpected response" error on a code that is not 2xx, else
\* `return n, nil`
AttemptFinal(p) ==
  /\ pc[p] = "got"
  /\ op[p] \in XferOps
  /\ step = "final"
  /\ \E out \in {IOError, replyClosingDataConnection, replyServiceNotAvailable,
                 replyFileError} :
       LET r == readResponse(out, ReplyText)
           cmd == <<TransferCmd(op[p])>>
           more ==
             IF r.err # NoError
             THEN <<debug(<<"error reading response after ", "%", "s", ": ", "%", "s">>,
                          <<cmd, <<r.err.err>>>>)>>
             ELSE IF ~positiveCompletionReply(r.code)
             THEN <<debug(<<"unexpected response after ", "%", "s", ": ", "%", "d",
                            " (", "%", "s", ")">>, <<cmd, Itoa(r.code), r.msg>>)>>
             ELSE <<>>
       IN /\ wire' = Append(wire, [f |-> <<"readResponse">>, args |-> <<>>,
                                   line |-> <<>>, out |-> out, secure |-> tls,
                                   msg |-> r.msg])
          /\ log' = log \o r.log \o more
          /\ log2' = log2 \o r.log \o more
          /\ broken' = MarkFailed(broken, pconn[p], r.broken)
          /\ IF r.err # NoError THEN AttemptEnds(n, IOErr, r.err)
             ELSE IF ~positiveCompletionReply(r.code)
             THEN AttemptEnds(n, Errorf("unexpected response"),
                              ftpError(0, <<>>, "unexpected response", FALSE))
             ELSE AttemptEnds(n, Nil, NoError)
  /\ UNCHANGED <<freeConnCh, pc, pconn, remote, sink, srcPos, lastRest,
                 attemptFrame>>

\* the deferred calls, last first: `defer dc.Close()` when the data socket
\* was dialled, then `defer c.returnConn(pconn)`
AttemptDefer(p) ==
  /\ pc[p] = "got"
  /\ step = "defer"
  /\ IF Dialled
     THEN Event("defer dc.Close", <<>>, TRUE, <<>>)
     ELSE UNCHANGED <<wire, log, log2>>
  /\ returnConn(pconn[p])
  /\ pconn' = Upd(pconn, p, NoConn)
  /\ pc' = Upd(pc, p, "after")
  /\ step' = "returned"
  /\ UNCHANGED <<broken, remote, sink, srcPos, n, err, lastRest, cerr,
                 attemptFrame>>

NextAttempt ==
  \/ AttemptType(Mover)
  \/ AttemptRest(Mover)
  \/ AttemptEpsv(Mover)
  \/ AttemptPasv(Mover)
  \/ AttemptDial(Mover)
  \/ AttemptCmd(Mover)
  \/ AttemptCopy(Mover)
  \/ AttemptClose(Mover)
  \/ AttemptFinal(Mover)
  \/ AttemptDefer(Mover)
  \/ RetrieveNext(Mover)
  \/ StoreNext(Mover)

SpecAttempt == InitAttempt /\ [][NextAttempt]_vars

\* ------------------------- a listing, and a transfer without dest and src
\* a variant of DataErrorLast that returns the data error at once
DataErrorFirst(dataError, final) == IF dataError THEN "data" ELSE final

\* dataStringList after readResponse: the read error, then the ftpError of
\* a reply that is not 2xx, then dataError, then the lines
DataErrorLast(dataError, final) ==
  IF final # "ok" THEN final ELSE IF dataError THEN "data" ELSE "ok"

\* a call that holds the connection getIdleConn returned: o is NameList or
\* ReadDir at openDataConn, or Retrieve called with a nil dest at setType
InitHeld(o, st) ==
  /\ freeConnCh = <<>>
  /\ numOpenConns = 1
  /\ mu = NoProc
  /\ connIdx = FirstConn
  /\ closed = FALSE
  /\ allCons = {FirstConn}
  /\ broken = {}
  /\ sockClosed = {}
  /\ pc = [p \in Procs |-> IF p = Mover THEN "got" ELSE "idle"]
  /\ op = [p \in Procs |-> IF p = Mover THEN o ELSE "none"]
  /\ pconn = [p \in Procs |-> IF p = Mover THEN FirstConn ELSE NoConn]
  /\ reg = [p \in Procs |-> 0]
  /\ res = [p \in Procs |-> "none"]
  /\ cons = [p \in Procs |-> {}]
  /\ lateCall = {}
  /\ hosts = 1
  /\ dialled = DialledUpTo(connIdx, hosts)
  /\ srvFeat = {<<"SIZE", "">>, <<"REST", "STREAM">>}
  /\ XferInit
  /\ config = [TLS |-> FALSE, User |-> <<>>, Password |-> <<>>]
  /\ password2 = <<>>
  /\ step = st
  /\ tls = FALSE
  /\ wire = <<>>
  /\ log = <<>>
  /\ log2 = <<>>
  /\ featMsg = <<>>
  /\ featureMap = {}
  /\ cerr = NoError

\* Retrieve(path, nil): transferFromOffset gets neither dest nor src
NilDest == "Retrieve(nil)"

InitData ==
  \/ InitAttempt
  \/ \E o \in ListOps : InitHeld(o, "epsv")
  \/ InitHeld(NilDest, "type")

\* NameList sends NLST, ReadDir MLSD
ListVerb(o) == IF o = "NameList" THEN "NLST" ELSE "MLSD"

\* the scan of the data socket ended with scanner.Err() != nil
ScanFailed == \E i \in DOMAIN wire : wire[i].f = <<"scan">> /\ wire[i].out = 0

\* dataStringList: `cmd := fmt.Sprintf(f, args...)`, then
\* `err = pconn.sendCommandExpected(replyGroupPreliminaryReply, cmd)`
ListCmd(p) ==
  /\ pc[p] = "got"
  /\ op[p] \in ListOps
  /\ step = "cmd"
  /\ \E out \in Outcomes({replyFileStatusOkay}), path \in Paths :
       LET f == <<ListVerb(op[p]), " ", "%", "s">>
           r == sendCommand(Sprintf(f, <<path>>), <<>>, out, ReplyText)
           e == sendCommandExpected(replyGroupPreliminaryReply, r)
       IN /\ Exchange(f, <<path>>, r, r, out, <<>>)
          /\ broken' = MarkFailed(broken, pconn[p], r.broken)
          /\ IF e # NoError THEN AttemptEnds(0, AttemptErr(out, ListVerb(op[p])), e)
             ELSE AttemptGoes("scan")
  /\ UNCHANGED <<freeConnCh, pc, pconn, remote, sink, srcPos, lastRest,
                 attemptFrame>>

\* `for scanner.Scan() { res = append(res, scanner.Text()) }`, then
\* `if err = scanner.Err(); err != nil`: the error is logged and kept in
\* dataError
ListScan(p) ==
  /\ pc[p] = "got"
  /\ op[p] \in ListOps
  /\ step = "scan"
  /\ \E ok \in BOOLEAN :
       Event("scan", <<>>, ok,
             IF ok THEN <<>>
             ELSE <<debug(<<"error reading ", "%", "s", " data: ", "%", "s">>,
                          <<<<ListVerb(op[p])>>, <<"EOF">>>>)>>)
  /\ step' = "close"
  /\ UNCHANGED <<freeConnCh, broken, pc, pconn, remote, sink, srcPos, n, err,
                 lastRest, cerr, attemptFrame>>

\* `code, msg, err := pconn.readResponse()` and the four returns after it
ListFinal(p) ==
  /\ pc[p] = "got"
  /\ op[p] \in ListOps
  /\ step = "final"
  /\ \E out \in {IOError, replyClosingDataConnection, replyServiceNotAvailable,
                 replyFileError} :
       LET r == readResponse(out, ReplyText)
           final == IF r.err # NoError THEN "io"
                    ELSE IF ~positiveCompletionReply(r.code) THEN "reply"
                    ELSE "ok"
           verdict == DataErrorLast(ScanFailed, final)
           more == IF final = "reply"
                   THEN <<debug(<<"unexpected result: ", "%", "d", "-", "%", "s">>,
                                <<Itoa(r.code), r.msg>>)>>
                   ELSE <<>>
       IN /\ wire' = Append(wire, [f |-> <<"readResponse">>, args |-> <<>>,
                                   line |-> <<>>, out |-> out, secure |-> tls,
                                   msg |-> r.msg])
          /\ log' = log \o r.log \o more
          /\ log2' = log2 \o r.log \o more
          /\ broken' = MarkFailed(broken, pconn[p], r.broken)
          /\ CASE verdict = "io" -> AttemptEnds(0, IOErr, r.err)
               [] verdict = "reply" ->
                    AttemptEnds(0, FtpErr(r.code, "final"),
                                ftpError(r.code, r.msg, "", FALSE))
               [] verdict = "data" ->
                    AttemptEnds(0, Errorf("data"),
                                ftpError(0, <<>>, "error reading data", TRUE))
               [] OTHER -> AttemptEnds(0, Nil, NoError)
  /\ UNCHANGED <<freeConnCh, pc, pconn, remote, sink, srcPos, lastRest,
                 attemptFrame>>

\* dataStringList has returned (res, err) to NameList or ReadDir: an error
\* is returned; ReadDir parses the entries with parseMLST, which may fail
ListReturn(p) ==
  /\ pc[p] = "after"
  /\ op[p] \in ListOps
  /\ pc' = Upd(pc, p, "done")
  /\ \E parsed \in BOOLEAN :
       /\ ~parsed => op[p] = "ReadDir" /\ err = Nil
       /\ res' = Upd(res, p, IF err = Nil /\ parsed THEN "ok" ELSE "err")
  /\ UNCHANGED <<poolVars, broken, sockClosed, op, pconn, reg, cons, xferVars,
                 lateCall, connVars>>

\* transferFromOffset with dest == nil and src == nil:
\* `panic("this shouldn't happen")`; the deferred calls run next
AttemptPanic(p) ==
  /\ pc[p] = "got"
  /\ op[p] = NilDest
  /\ step = "cmd"
  /\ AttemptEnds(0, Errorf("panic"), NoError)
  /\ UNCHANGED <<freeConnCh, broken, pc, pconn, remote, sink, srcPos,
                 lastRest, wire, log, log2, attemptFrame>>

\* the panic leaves transferFromOffset and Retrieve; an attempt that ended
\* before it returned (0, err), which Retrieve returns
PanicUnwinds(p) ==
  /\ pc[p] = "after"
  /\ op[p] = NilDest
  /\ pc' = Upd(pc, p, IF err = Errorf("panic") THEN "panic" ELSE "done")
  /\ res' = Upd(res, p, IF err = Errorf("panic") THEN res[p] ELSE "err")
  /\ UNCHANGED <<poolVars, broken, sockClosed, op, pconn, reg, cons,
                 xferVars, lateCall, connVars>>

NextData ==
  \/ NextAttempt
  \/ ListCmd(Mover)
  \/ ListScan(Mover)
  \/ ListFinal(Mover)
  \/ ListReturn(Mover)
  \/ AttemptPanic(Mover)
  \/ PanicUnwinds(Mover)

SpecData == InitData /\ [][NextData]_vars

\* ------------------------------------------- requestPassive, openDataConn
\* strings.Index(s, sub) for a text sub: 0 when it is absent
IndexStr(s, sub) ==
  LET at(i) == i + Len(sub) - 1 <= Len(s) /\ SubSeq(s, i, i + Len(sub) - 1) = sub
  IN IF \E i \in DOMAIN s : at(i)
     THEN CHOOSE i \in DOMAIN s : at(i) /\ \A j \in 1..(i - 1) : ~at(j)
     ELSE 0

\* strings.LastIndex(s, sep) for a separator of one symbol: 0 when absent
LastIndex(s, sep) ==
  IF \E i \in DOMAIN s : s[i] = sep
  THEN CHOOSE i \in DOMAIN s : s[i] = sep /\ \A j \in (i + 1)..Len(s) : s[j] # sep
  ELSE 0

\* strings.Join(parts, sep)
RECURSIVE JoinSep(_, _)
JoinSep(parts, sep) ==
  IF parts = <<>> THEN <<>>
  ELSE IF Len(parts) = 1 THEN parts[1]
  ELSE parts[1] \o <<sep>> \o JoinSep(Tail(parts), sep)

\* strconv.Atoi(s) returns an error: s is not an optional sign followed by
\* one digit at least
AtoiErr(s) ==
  LET ds == IF s # <<>> /\ s[1] \in {"+", "-"} THEN Tail(s) ELSE s
  IN ds = <<>> \/ \E i \in DOMAIN ds : ds[i] \notin Digits

\* the int strconv.Atoi(s) returns when it returns no error
AtoiInt(s) ==
  IF s[1] = "-" THEN 0 - Atoi(Tail(s))
  ELSE IF s[1] = "+" THEN Atoi(Tail(s))
  ELSE Atoi(s)

\* net.ParseIP of a text without ':': four fields of digits between dots,
\* none above 255; <<>> is nil
ParseIP(s) ==
  LET fs == Split(s, ".")
  IN IF /\ Len(fs) = 4
        /\ \A i \in 1..4 : /\ fs[i] # <<>>
                           /\ \A j \in DOMAIN fs[i] : fs[i][j] \in Digits
                           /\ Atoi(fs[i]) <= 255
     THEN [i \in 1..4 |-> Atoi(fs[i])]
     ELSE <<>>

\* IP.String() of an IPv4 address
IPString(ip) == JoinSep([i \in 1..4 |-> Itoa(ip[i])], ".")

\* a & b, a | b and a &^ b of two ints that are not negative
RECURSIVE BitsOf(_, _, _)
BitsOf(a, b, f) ==
  IF a = 0 /\ b = 0 THEN 0
  ELSE 2 * BitsOf(a \div 2, b \div 2, f)
         + (CASE f = "and" -> (IF a % 2 = 1 /\ b % 2 = 1 THEN 1 ELSE 0)
              [] f = "or" -> (IF a % 2 = 1 \/ b % 2 = 1 THEN 1 ELSE 0)
              [] OTHER -> (IF a % 2 = 1 /\ b % 2 = 0 THEN 1 ELSE 0))

\* a | b of two ints in two's complement (^x is -x - 1)
BitOr(a, b) ==
  IF a >= 0 /\ b >= 0 THEN BitsOf(a, b, "or")
  ELSE IF a < 0 /\ b < 0 THEN (0 - 1) - BitsOf((0 - a) - 1, (0 - b) - 1, "and")
  ELSE IF a < 0 THEN (0 - 1) - BitsOf((0 - a) - 1, b, "andnot")
  ELSE (0 - 1) - BitsOf((0 - b) - 1, a, "andnot")

\* requestPassive on a reply 229 with text msg: the port between "|||" and
\* the last "|", behind the host of the control connection
ParseEpsv(msg) ==
  LET startIdx == IndexStr(msg, <<"|", "|", "|">>)
      endIdx == LastIndex(msg, "|")
      digits == SubSeq(msg, startIdx + 3, endIdx - 1)
  IN IF startIdx = 0 \/ endIdx = 0 \/ startIdx + 3 > endIdx THEN [ok |-> FALSE, host |-> <<>>]
     ELSE IF AtoiErr(digits) THEN [ok |-> FALSE, host |-> <<>>]
     ELSE [ok |-> TRUE,
           host |-> <<"[", "remoteHost", "]", ":">> \o Itoa(AtoiInt(digits))]

\* requestPassive below its label PASV, on the text msg: the six parts
\* between the first "(" and the last ")", the address from the first four,
\* `port |= portOctet << (byte(1-i) * 8)` over the last two
ParsePasv(msg) ==
  LET startIdx == Index(msg, "(")
      endIdx == LastIndex(msg, ")")
      addrParts == Split(SubSeq(msg, startIdx + 1, endIdx - 1), ",")
      ip == ParseIP(JoinSep(SubSeq(addrParts, 1, 4), "."))
      port == BitOr(BitOr(0, AtoiInt(addrParts[5]) * 256), AtoiInt(addrParts[6]))
      parseError == [ok |-> FALSE, host |-> <<>>]
  IN IF startIdx = 0 \/ endIdx = 0 \/ startIdx > endIdx THEN parseError
     ELSE IF Len(addrParts) # 6 THEN parseError
     ELSE IF ip = <<>> THEN parseError
     ELSE IF AtoiErr(addrParts[5]) \/ AtoiErr(addrParts[6]) THEN parseError
     ELSE [ok |-> TRUE, host |-> IPString(ip) \o <<":">> \o Itoa(port)]

\* the reply of the test server to a command it has been told to refuse
NotUnderstood == <<"command", " ", "not", " ", "understood.">>

\* "Entering Passive Mode (h1,h2,h3,h4,p1,p2)." with the given parts
PasvText(parts) ==
  <<"Entering", " ", "Passive", " ", "Mode", " ", "(">> \o JoinSep(parts, ",") \o <<")", ".">>

\* "Entering Extended Passive Mode (|||port|)"
EpsvText(port) ==
  <<"Entering", " ", "Extended", " ", "Passive", " ", "Mode", " ", "(", "|", "|", "|">>
    \o port \o <<"|", ")">>

\* the parts a server may put where a number between 0 and 255 belongs
PayloadParts ==
  {<<"0">>, <<"2", "5", "5">>, <<"2", "5", "6">>, <<"-", "1">>, <<"x">>, <<>>}

BasePayload == <<<<"1">>, <<"2">>, <<"3">>, <<"4">>, <<"5">>, <<"6">>>>

\* payloads that differ from (1,2,3,4,5,6) in one part, or in their length
Payloads ==
  {BasePayload, SubSeq(BasePayload, 1, 5), BasePayload \o <<<<"7">>>>}
    \cup {[BasePayload EXCEPT ![i] = v] : i \in 1..6, v \in PayloadParts}

\* the texts the server may send with a reply to EPSV or to PASV
PassiveTexts ==
  {NotUnderstood, <<"Entering", " ", "Passive", " ", "Mode", " ", ")", "(">>}
    \cup {PasvText(parts) : parts \in Payloads}
    \cup {EpsvText(port) : port \in {<<"9">>, <<"x">>, <<>>}}

\* the reply to EPSV: requestPassive's code and msg
EpsvReply == wire[CHOOSE i \in DOMAIN wire : wire[i].f = <<"EPSV">>]

\* PASV has been sent
PasvSent == \E i \in DOMAIN wire : wire[i].f = <<"PASV">>

\* openDataConn is called by a transfer with a connection in hand
InitPassive == InitHeld("Retrieve", "epsv")

\* requestPassive: `code, msg, err := pconn.sendCommand("EPSV")`; an I/O
\* error is returned; a code other than 229, or a text without |||port|,
\* goes to PASV
PassiveEpsv(p) ==
  /\ pc[p] = "got"
  /\ step = "epsv"
  /\ \E out \in Outcomes({replyEnteringExtendedPassiveMode}), text \in PassiveTexts :
       LET r == sendCommand(<<"EPSV">>, <<>>, out, text)
       IN /\ out \in {WriteError, IOError} => text = NotUnderstood
          /\ broken' = MarkFailed(broken, pconn[p], r.broken)
          /\ IF r.err # NoError
             THEN /\ Exchange(<<"EPSV">>, <<>>, r, r, out, DataConnError(r.err))
                  /\ AttemptEnds(0, IOErr, r.err)
             ELSE IF r.code # replyEnteringExtendedPassiveMode
             THEN /\ Exchange(<<"EPSV">>, <<>>, r, r, out,
                         <<debug(<<"server doesn't support EPSV: ", "%", "d", "-",
                                   "%", "s">>, <<Itoa(r.code), r.msg>>)>>)
                  /\ AttemptGoes("pasv")
             ELSE IF ~ParseEpsv(r.msg).ok
             THEN /\ Exchange(<<"EPSV">>, <<>>, r, r, out,
                         <<debug(<<"failed parsing EPSV response: ", "%", "s">>,
                                 <<r.msg>>)>>)
                  /\ AttemptGoes("pasv")
             ELSE /\ Exchange(<<"EPSV">>, <<>>, r, r, out, <<>>)
                  /\ AttemptGoes("dial")
  /\ UNCHANGED <<freeConnCh, pc, pconn, remote, sink, srcPos, lastRest,
                 attemptFrame>>

\* requestPassive: `err = pconn.sendCommandExpected(replyEnteringPassiveMode,
\* "PASV")` keeps the error only, so the payload is looked for in msg, the
\* text of the reply to EPSV
PassivePasv(p) ==
  /\ pc[p] = "got"
  /\ step = "pasv"
  /\ \E out \in Outcomes({replyEnteringPassiveMode}), text \in PassiveTexts :
       LET r == sendCommand(<<"PASV">>, <<>>, out, text)
           e == sendCommandExpected(replyEnteringPassiveMode, r)
           msg == EpsvReply.msg
           parseError == ftpError(0, <<>>, "error parsing PASV response", FALSE)
       IN /\ out \in {WriteError, IOError} => text = NotUnderstood
          /\ broken' = MarkFailed(broken, pconn[p], r.broken)
          /\ IF e # NoError
             THEN /\ Exchange(<<"PASV">>, <<>>, r, r, out, DataConnError(e))
                  /\ AttemptEnds(0, AttemptErr(out, "PASV"), e)
             ELSE IF ~ParsePasv(msg).ok
             THEN /\ Exchange(<<"PASV">>, <<>>, r, r, out, DataConnError(parseError))
                  /\ AttemptEnds(0, Errorf("parse"), parseError)
             ELSE /\ Exchange(<<"PASV">>, <<>>, r, r, out, <<>>)
                  /\ AttemptGoes("dial")
  /\ UNCHANGED <<freeConnCh, pc, pconn, remote, sink, srcPos, lastRest,
                 attemptFrame>>

\* the host requestPassive has returned
PassiveHost ==
  IF PasvSent THEN ParsePasv(EpsvReply.msg).host ELSE ParseEpsv(EpsvReply.msg).host

\* openDataConn: `dc, err := net.DialTimeout("tcp", host, Timeout)` with the
\* host requestPassive returned
PassiveDial(p) ==
  /\ pc[p] = "got"
  /\ step = "dial"
  /\ \E ok \in BOOLEAN, isTemporary \in BOOLEAN :
       LET opening == debug(<<"opening data connection to ", "%", "s">>,
                            <<PassiveHost>>)
           e == ftpError(0, <<>>, "dial", isTemporary)
       IN /\ ok => ~isTemporary
          /\ IF ok
             THEN /\ Event("dial", <<PassiveHost>>, TRUE, <<opening>>)
                  /\ AttemptGoes("cmd")
             ELSE /\ Event("dial", <<PassiveHost>>, FALSE,
                           <<opening>> \o DataConnError(e))
                  /\ AttemptEnds(0, IOErr, e)
  /\ UNCHANGED <<freeConnCh, broken, pc, pconn, remote, sink, srcPos,
                 lastRest, attemptFrame>>

NextPassive ==
  \/ PassiveEpsv(Mover)
  \/ PassivePasv(Mover)
  \/ PassiveDial(Mover)

SpecPassive == InitPassive /\ [][NextPassive]_vars

\* ------------------------------------------------------------- properties
\* callers that hold connection c
Holders(c) == {p \in Procs : pconn[p] = c}

\* how often connection c is in the idle queue
Queued(c) == Cardinality({i \in 1..Len(freeConnCh) : freeConnCh[i] = c})

\* no caller other than p is inside an operation
Quiet(p) == \A q \in Procs \ {p} : pc[q] = "idle"

\* the server advertises REST STREAM
RestStream == <<"REST", "STREAM">> \in srvFeat

\* C1: a connection is in at most one place: in the idle queue at most
\* once, or held by exactly one caller (which may be discarding it), never
\* both, whatever the interleaving of the callers
C1_OnePlace ==
  \A c \in Conns : Cardinality(Holders(c)) + Queued(c) <= 1

\* a caller holds a connection it was just handed while another one is idle
\* in the queue, after an earlier connection has been discarded
C1_Witness ==
  \E p \in Procs :
    /\ pc[p] = "got"
    /\ pconn[p] # NoConn
    /\ Len(freeConnCh) = 1
    /\ \E c \in Conns : c \in broken /\ c \in sockClosed /\ c \notin allCons

\* C2: 0 <= numOpenConns <= MaxConnections in every state, and a caller
\* that is opening a connection has already been counted
C2_CounterInRange ==
  /\ 0 <= numOpenConns
  /\ numOpenConns <= MaxConnections
  /\ Cardinality({p \in Procs : pc[p] = "gi_open"}) <= numOpenConns

\* the pool is at its capacity and a caller blocks on the idle queue, after
\* a connection has been discarded and replaced
C2_Witness ==
  /\ numOpenConns = MaxConnections
  /\ connIdx > MaxConnections
  /\ \E p \in Procs : pc[p] = "gi_wait"

\* C3: no increment or decrement of numOpenConns is lost: the step that
\* completes `c.numOpenConns++` leaves the counter one above what it was
C3_NoLostUpdate ==
  [][\A p \in Procs :
       pc[p] = "gi_store" /\ pc'[p] = "gi_open"
         => numOpenConns' = numOpenConns + 1]_vars

\* C4: when Retrieve, Store, NameList, ReadDir or Stat has returned and no
\* other operation is in flight, every connection counted in numOpenConns
\* is idle in the queue
C4_NoLeak ==
  \A p \in Procs :
    /\ pc[p] = "done"
    /\ op[p] \in XferOps \cup ListOps \cup {"Stat"}
    /\ Quiet(p)
    /\ closes = 0
    => numOpenConns = Len(freeConnCh)

\* C5: when Delete, Rename, Mkdir or Rmdir has returned (success or error)
\* and no other operation is in flight, the connection it acquired is back
\* in the queue: numOpenConns = len(freeConnCh)
C5_FsReleases ==
  \A p \in Procs :
    /\ pc[p] = "done"
    /\ op[p] \in FsOps
    /\ Quiet(p)
    /\ ~closed
    => numOpenConns = Len(freeConnCh)

\* C6: a retry of Retrieve sends REST with the number of bytes the sink has
\* accepted so far; and with a server that advertises REST STREAM, when
\* nothing fails but writes to the sink that took at least one byte,
\* Retrieve ends in success with the whole file in the sink
C6_ResumeAfterSinkFailure ==
  \A p \in Procs :
    op[p] = "Retrieve" =>
      /\ pc[p] = "x_copy" /\ attempts >= 2 => lastRest = Len(sink)
      /\ pc[p] = "done" /\ RestStream /\ trouble \in {"none", "sink"}
           => res[p] = "ok" /\ sink = File(fileLen)

\* Retrieve has succeeded in a second attempt after the sink failed
C6_Witness ==
  \E p \in Procs :
    /\ pc[p] = "done"
    /\ op[p] = "Retrieve"
    /\ res[p] = "ok"
    /\ trouble = "sink"
    /\ attempts >= 2
    /\ fileLen = MaxFile
    /\ sink = File(fileLen)

\* C7: with a server that advertises REST STREAM, when all connections of
\* the client are closed in the middle of a download (the sink has taken at
\* least one byte) and nothing else fails, Retrieve ends in success with
\* the whole file in the sink
C7_RecoversFromCloseAll ==
  \A p \in Procs :
    /\ pc[p] = "done"
    /\ op[p] = "Retrieve"
    /\ RestStream
    /\ closes >= 1
    /\ trouble = "closeall"
    => res[p] = "ok" /\ sink = File(fileLen)

\* C8: without REST STREAM in the FEAT map Retrieve makes one attempt at
\* most and sends no REST, and an attempt that failed ends it with an error
C8_RetrieveResumesOnlyWithRestStream ==
  \A p \in Procs :
    op[p] = "Retrieve" /\ ~RestStream =>
      /\ attempts <= 1
      /\ lastRest = -1
      /\ pc[p] = "done" /\ err # Nil => res[p] = "err"

\* Retrieve has given up after a failed attempt that copied bytes, on a
\* server that advertises REST with another argument
C8_Witness ==
  \E p \in Procs :
    /\ pc[p] = "done"
    /\ op[p] = "Retrieve"
    /\ hasFeature(srvFeat, "REST")
    /\ ~RestStream
    /\ n > 0
    /\ err = Errorf("can't resume")
    /\ res[p] = "err"

\* C9: Store makes a second attempt only with one host, a source that
\* implements Seek and REST STREAM in the FEAT map; without one of them, an
\* attempt that failed ends it with an error
C9_StoreResumesOnlyWhenAllowed ==
  \A p \in Procs :
    op[p] = "Store" =>
      /\ attempts >= 2 => hosts = 1 /\ seeker /\ RestStream
      /\ ~(hosts = 1 /\ seeker /\ RestStream) /\ pc[p] = "done" /\ err # Nil
           => res[p] = "err"

\* Store has given up after a failed attempt that sent bytes: the server
\* advertises REST STREAM and there is one host, but the source has no Seek
C9_Witness ==
  \E p \in Procs :
    /\ pc[p] = "done"
    /\ op[p] = "Store"
    /\ hosts = 1
    /\ RestStream
    /\ ~seeker
    /\ n > 0
    /\ err = Errorf("can't resume")
    /\ res[p] = "err"

\* C10: when SIZE gave a size, Retrieve succeeds only if the sink holds
\* that many bytes and Store only if it sent that many; a mismatch error is
\* returned exactly for a difference
C10_SizeChecked ==
  \A p \in Procs :
    pc[p] = "done" /\ op[p] \in XferOps =>
      /\ res[p] = "ok" /\ size # -1 =>
           /\ bytesSoFar = size
           /\ op[p] = "Retrieve" => Len(sink) = size
      /\ err = Errorf("mismatch") =>
           res[p] = "err" /\ size # -1 /\ bytesSoFar # size

\* Retrieve has returned the mismatch error: the data ended before the size
\* the server had reported
C10_Witness ==
  \E p \in Procs :
    /\ pc[p] = "done"
    /\ op[p] = "Retrieve"
    /\ size = fileLen
    /\ Len(sink) < size
    /\ err = Errorf("mismatch")
    /\ res[p] = "err"

\* transferFromOffset has returned the refusal of its RETR or STOR
Refused(p) ==
  /\ op[p] \in XferOps
  /\ stage = "xfer"
  /\ err.kind = "ftp"
  /\ err.msg = TransferCmd(op[p])

\* C11: a RETR or STOR answered with a reply that is not 1xx copies no
\* byte, gives an error with the code and the text of that reply, which
\* Retrieve / Store return as it is, and puts the connection back in the
\* idle queue unbroken with its socket open; a later getIdleConn that finds
\* an unbroken connection at the head of the queue hands out that one
\* without opening another
C11_RefusedTransfer ==
  [][\A p \in Procs :
       /\ pc[p] = "got" /\ pc'[p] = "after" /\ Refused(p)'
            => /\ n' = 0
               /\ sink' = sink
               /\ remote' = remote
               /\ err'.code = replyFileError
               /\ pconn[p] \notin broken' \cup sockClosed'
               /\ freeConnCh' = Append(freeConnCh, pconn[p])
       /\ pc[p] = "after" /\ Refused(p) /\ pc'[p] # "after"
            => /\ pc'[p] = "done"
               /\ res'[p] = "err"
               /\ err' = err
               /\ sink' = sink
               /\ remote' = remote
       /\ (pc[p] = "gi_fast" /\ pc'[p] # "gi_fast" /\ freeConnCh # <<>>
           /\ Head(freeConnCh) \notin broken)
            => /\ pc'[p] = "got"
               /\ pconn'[p] = Head(freeConnCh)
               /\ connIdx' = connIdx]_vars

\* Retrieve has returned the 550 of its RETR, and the connection it used is
\* idle in the queue, unbroken and open
C11_Witness ==
  \E p \in Procs :
    /\ pc[p] = "done"
    /\ op[p] = "Retrieve"
    /\ Refused(p)
    /\ err = FtpErr(replyFileError, "RETR")
    /\ res[p] = "err"
    /\ sink = <<>>
    /\ numOpenConns = 1
    /\ Len(freeConnCh) = 1
    /\ freeConnCh[1] \notin broken \cup sockClosed

\* C12: an operation called after Close() has returned is never handed a
\* connection by getIdleConn, whatever the idle queue held when Close() ran
C12_NoAcquireAfterClose ==
  \A p \in lateCall : pc[p] # "got"

\* C13: a Close() called after an earlier Close() has returned leaves the
\* pool as the first one left it: when it has returned the mutex is free,
\* so that a later c.mu.Lock() (getIdleConn's second loop, removeConn,
\* another Close) can still be taken
C13_SecondCloseFreesLock ==
  \A p \in lateCall :
    pc[p] = "done" /\ op[p] = "Close" => mu = NoProc

\* the connections whose control socket is open
OpenSockets == {c \in 1..connIdx : c \notin sockClosed}

\* c.mu is free, or held by a caller that releases it in its next step
LockAvailable == mu = NoProc \/ pc[mu] = "gi_store"

\* C14: once Close() has returned no connection is registered, and a
\* control socket that is still open belongs to a connection whose setup
\* is in progress, which openConn can take the lock for, finds the client
\* closed and closes: it is never registered or handed out
C14_NoneOpenAfterClose ==
  CloseReturned =>
    /\ allCons = {}
    /\ \A c \in OpenSockets :
         /\ \E p \in Procs : pc[p] = "gi_open" /\ pconn[p] = c
         /\ LockAvailable

\* ---- C15 ----
\* the names the FEAT text advertises: of every line that begins with a
\* space, the first word, in upper case
FeatNames(text) ==
  {ToUpper(SplitN2(TrimSpace(l), " ")[1]) :
     l \in {Split(text, "\n")[i] : i \in {j \in DOMAIN Split(text, "\n") :
              /\ Split(text, "\n")[j] # <<>>
              /\ Split(text, "\n")[j][1] = " "}}}

FeatAnswered ==
  /\ wire # <<>>
  /\ wire[Len(wire)].f = <<"FEAT">>
  /\ wire[Len(wire)].out = replySystemStatus

\* C15: parsing a 2xx FEAT reply never crashes, whatever its lines (empty
\* ones included), and leaves in the feature map exactly the upper-cased
\* names of the lines that begin with a space
C15_FeatParseTotal ==
  /\ step # "panic"
  /\ FeatAnswered => {e[1] : e \in featureMap} = FeatNames(featMsg)

\* ---- C16 ----
\* the exchanges whose command is f, and those of them answered as wanted
Sent(fs) == {i \in DOMAIN wire : wire[i].f \in fs}

Credentials == {<<"USER", " ", "%", "s">>, <<"PASS", " ", "%", "s">>}

DataCommands == {<<"%", "s", " ", "%", "s">>, <<"NLST", " ", "%", "s">>}

Acked(fs, i) == wire[i].f \in fs /\ wire[i].out \div 100 = replyGroupPositiveCompletion

\* C16: in explicit TLS mode USER and PASS go out only after AUTH TLS was
\* answered 234 and the control socket was wrapped in TLS; another answer
\* to AUTH TLS ends the setup with no credentials sent; a data-transfer
\* command goes out only after PBSZ 0 and then PROT P were answered 2xx
C16_TLSBeforeCredentials ==
  config.TLS =>
    /\ \A i \in Sent(Credentials) :
         /\ wire[i].secure
         /\ \E a \in 1..(i - 1) :
              wire[a].f = <<"AUTH TLS">> /\ wire[a].out = replyAuthOkayNoDataNeeded
    /\ \A a \in Sent({<<"AUTH TLS">>}) :
         wire[a].out # replyAuthOkayNoDataNeeded =>
           step = "failed" /\ ~tls /\ Sent(Credentials) = {} /\ Len(wire) = a
    /\ step \in {"ready", "sent"} \/ Sent(DataCommands) # {} =>
         \E b, c \in DOMAIN wire :
           /\ b < c
           /\ Acked({<<"PBSZ", " ", "0">>}, b)
           /\ Acked({<<"PROT", " ", "P">>}, c)
           /\ \A d \in Sent(DataCommands) : c < d /\ wire[d].secure

C16_Witness ==
  /\ config.TLS
  /\ step = "sent"
  /\ cerr = NoError
  /\ Sent({<<"PASS", " ", "%", "s">>}) # {}
  /\ wire[Len(wire)].f \in DataCommands
  /\ wire[Len(wire)].out = replyFileStatusOkay

\* ---- C17 ----
\* s holds t as a run of neighbouring symbols
Contains(s, t) ==
  \E i \in 0..(Len(s) - Len(t)) : SubSeq(s, i + 1, i + Len(t)) = t

\* the debug lines that name the PASS command
PassLines == {i \in DOMAIN log : Contains(log[i], <<"PASS">>)}

\* C17: the debug log does not depend on the password: the run with
\* config.Password and the run with another password, the server answering
\* alike, write the same lines, and each line that names PASS, on the send
\* path and on the error path, names it as "PASS ******"
C17_LogHidesPassword ==
  /\ log = log2
  /\ \A i \in PassLines :
       /\ Contains(log[i], <<"PASS", " ", "******">>)
       /\ ~Contains(log[i], <<"PASS", " ">> \o config.Password)

\* a PASS whose write failed, with two different passwords: its line of the
\* send path and its line of the error path are in the log
C17_Witness ==
  /\ password2 # <<>>
  /\ password2 # config.Password
  /\ wire[Len(wire)].f = <<"PASS", " ", "%", "s">>
  /\ wire[Len(wire)].out = WriteError
  /\ Cardinality(PassLines) = 2

\* ---- C18 ----
\* the outcome of the last exchange
LastOut == wire[Len(wire)].out

\* the connection has just reported the error of its last exchange
Reported ==
  /\ cerr # NoError
  /\ step \in {"failed", "sent"}
  /\ wire # <<>>

C20_FormattedOnce ==
  \A i \in DOMAIN wire :
    wire[i].line = Sprintf(wire[i].f, wire[i].args) \o <<"\r\n">>

\* ---- C19 ----
\* every caller's Retrieve has returned nil
AllRetrieved == \A p \in DOMAIN pc : pc[p] = "done" /\ res[p] = "ok"

\* C19: with a limit of 2 connections and two hosts, when the 4 Retrieves
\* that were started together have all returned, all without error, the
\* pool holds one idle connection for each of them
C19_SaturatedPool ==
  AllRetrieved => Len(freeConnCh) = Cardinality(DOMAIN pc)

\* the elements of a sequence
Range(q) == {q[i] : i \in DOMAIN q}

\* ---- C21 ----
\* C21: no broken connection is put into the idle queue: a caller that
\* releases a connection whose broken flag is set closes and unregisters it
\* instead
C21_BrokenNeverQueued ==
  \A i \in DOMAIN freeConnCh : freeConnCh[i] \notin broken

\* ---- C22 ----
DecStates == {"gi_fast_dec", "gi_wait_dec"}

RmStates == {"gi_fast_rm", "gi_wait_rm"}

\* C22: getIdleConn never returns a connection whose broken flag is set: a
\* broken connection it takes from the queue, in the first loop or after
\* the blocking receive, costs numOpenConns one decrement, is removed from
\* allCons and closed, and getIdleConn goes on looking
C22_BrokenDiscarded ==
  [][\A p \in Procs :
       /\ (pc[p] # "got" /\ pc'[p] = "got") => pconn'[p] \notin broken'
       /\ (/\ pc[p] \in {"gi_fast", "gi_wait"}
           /\ pc'[p] # pc[p]
           /\ freeConnCh # <<>>
           /\ Head(freeConnCh) \in broken)
            => /\ pc'[p] = (IF pc[p] = "gi_fast" THEN "gi_fast_dec" ELSE "gi_wait_dec")
               /\ pconn'[p] = Head(freeConnCh)
               /\ freeConnCh' = Tail(freeConnCh)
       /\ (pc[p] \in DecStates /\ pc'[p] # pc[p])
            => /\ pc'[p] \in RmStates
               /\ numOpenConns' = numOpenConns - 1
               /\ pconn'[p] = pconn[p]
       /\ (pc[p] \in RmStates /\ pc'[p] # pc[p])
            => /\ pc'[p] \in {"gi_fast", "gi_lock"}
               /\ numOpenConns' = numOpenConns
               /\ pconn[p] \notin allCons'
               /\ pconn[p] \in sockClosed'
               /\ pconn[p] \notin Range(freeConnCh')
               /\ pconn'[p] = NoConn]_vars

\* a caller that blocked on the queue of a full pool woke with a broken
\* connection and has taken it off the count; it is about to remove it
C22_Witness ==
  \E p \in Procs :
    /\ pc[p] = "gi_wait_rm"
    /\ pconn[p] \in broken
    /\ pconn[p] \in allCons
    /\ numOpenConns = MaxConnections - 1

\* ---- C23 ----
\* C23: when openConn fails (dial, greeting, login or FEAT) getIdleConn
\* returns the error, the socket is closed, numOpenConns goes down by the
\* one the call had added, and the connection is in neither allCons nor the
\* queue, then and at any time before
C23_FailedOpenUndone ==
  [][\A p \in Procs :
       /\ (pc[p] = "gi_open" /\ pc'[p] \in {"done", "after"})
            => /\ numOpenConns' = numOpenConns - 1
               /\ pconn[p] \in sockClosed'
               /\ pconn[p] \notin allCons'
               /\ pconn[p] \notin Range(freeConnCh')
               /\ pconn'[p] = NoConn
               /\ op[p] = "simple" => res'[p] = "err"
       /\ (pc[p] = "gi_open" /\ pc'[p] = "gi_open")
            => /\ pconn[p] \notin allCons
               /\ pconn[p] \notin Range(freeConnCh)
       /\ (pc[p] = "gi_store" /\ pc'[p] = "gi_open")
            => /\ numOpenConns' = reg[p] + 1
               /\ pconn'[p] \notin allCons' \cup Range(freeConnCh') \cup sockClosed']_vars

\* the only connection of the client failed to open: nothing is counted,
\* registered or queued, its socket is closed
C23_Witness ==
  \E p \in Procs :
    /\ pc[p] = "done"
    /\ res[p] = "err"
    /\ Quiet(p)
    /\ connIdx = 1
    /\ sockClosed = {1}
    /\ numOpenConns = 0
    /\ allCons = {}
    /\ freeConnCh = <<>>

\* ---- C24 ----
\* C24: under fair scheduling, with every connection that is handed out
\* released again, every call of getIdleConn returns, with a connection or
\* with an error: no caller stays in the blocking receive for ever
C24_AcquireReturns ==
  \A p \in Waiters : (pc[p] = "gi_fast") ~> (pc[p] \in {"got", "done"})

\* ---- C26 ----
\* the callers that hold a connection on loan and will release it
Loaned == {p \in DOMAIN pc : pc[p] = "got"}

\* C26: the connections that are idle in freeConnCh or on loan to a caller
\* are never more than the capacity of the channel (MaxConnections), so the
\* send of returnConn always finds a free slot and does not block
C26_ReleaseNeverBlocks ==
  /\ Len(freeConnCh) + Cardinality(Loaned) <= MaxConnections
  /\ Loaned # {} => Len(freeConnCh) < MaxConnections

\* the pool is full: one connection idle, one on loan, a third caller waits
C26_Witness ==
  /\ Len(freeConnCh) + Cardinality(Loaned) = MaxConnections
  /\ freeConnCh # <<>>
  /\ Loaned # {}
  /\ \E p \in DOMAIN pc : pc[p] = "gi_wait"

\* ---- C25 ----
\* C25: a call of getIdleConn made before Close() that sits in the blocking
\* receive on freeConnCh while the client is closed does not leave the
\* receive with a connection for its caller: what it dequeues is discarded
\* and the call ends with an error
C25_WaiterSeesClosed ==
  [][\A p \in Procs :
       (pc[p] = "gi_wait" /\ p \notin lateCall /\ closed /\ pc'[p] # "gi_wait")
         => pc'[p] # "got"]_vars

\* ---- C27 ----
\* the first word of what an entry of wire wrote or did
Verb(w) == IF w.line # <<>> THEN w.line[1] ELSE w.f[1]

\* the calls of the attempt so far, in order, without the deferred close
Body ==
  SelectSeq([i \in DOMAIN wire |-> Verb(wire[i])],
            LAMBDA v : v # "defer dc.Close")

\* the order of a complete attempt, with or without the fallback to PASV
Canon(pasv) ==
  <<"TYPE">> \o (IF offset > 0 THEN <<"REST">> ELSE <<>>) \o <<"EPSV">> \o
  (IF pasv THEN <<"PASV">> ELSE <<>>) \o
  <<"dial", TransferCmd(op[Mover]), "io.Copy", "dc.Close", "readResponse">>

IsPrefix(q, t) == Len(q) <= Len(t) /\ \A i \in DOMAIN q : q[i] = t[i]

\* C27: until Retrieve or Store go on, the exchanges of the attempt come in
\* the order TYPE I, REST <offset>
\* exactly when offset > 0, EPSV (then PASV when EPSV gave no address) and
\* the dial of the data socket, RETR or STOR, the copy, the close of the
\* data socket, the read of the final reply; the deferred close comes last
\* and only when the dial had succeeded
C27_ExchangeOrder ==
  pc[Mover] \in {"got", "after"} =>
    /\ \E pasv \in BOOLEAN : IsPrefix(Body, Canon(pasv))
    /\ \A i \in DOMAIN wire :
         /\ Verb(wire[i]) = "TYPE" => wire[i].args = <<<<"I">>>>
         /\ Verb(wire[i]) = "REST" => wire[i].args = <<Itoa(offset)>>
         /\ Verb(wire[i]) = "defer dc.Close" => i = Len(wire) /\ Dialled
    /\ (step \in {"defer", "returned"} /\ err = Nil)
         => \E pasv \in BOOLEAN : Body = Canon(pasv)

\* a resumed attempt that went through, by way of PASV
C27_Witness ==
  /\ step = "returned"
  /\ pc[Mover] = "after"
  /\ err = Nil
  /\ offset > 0
  /\ Body = Canon(TRUE)

\* ---- C28 ----
\* the REST of the attempt got something else than 350, or no reply
RestRefused ==
  \E i \in DOMAIN wire :
    Verb(wire[i]) = "REST" /\ wire[i].out # replyFileActionPending

\* C28: when REST is not answered with 350 the attempt sends nothing more
\* and dials no data socket, returns (0, err) with the error of the REST,
\* and Retrieve or Store return that error without another attempt
C28_RestRefusedEnds ==
  RestRefused =>
    /\ Verb(wire[Len(wire)]) = "REST"
    /\ ~Dialled
    /\ step \in {"defer", "returned"}
    /\ n = 0
    /\ err # Nil
    /\ err = AttemptErr(wire[Len(wire)].out, "REST")
    /\ bytesSoFar = offset
    /\ pc[Mover] \in {"got", "after", "done"}
    /\ pc[Mover] = "done" => res[Mover] = "err"

\* Retrieve has returned the 530 that answered the REST of a resumed attempt
C28_Witness ==
  /\ RestRefused
  /\ pc[Mover] = "done"
  /\ op[Mover] = "Retrieve"
  /\ res[Mover] = "err"
  /\ canResume
  /\ err = FtpErr(replyNotLoggedIn, "REST")

\* ---- C29 ----
\* io.Copy returned an error
CopyFailed ==
  \E i \in DOMAIN wire : wire[i].f = <<"io.Copy">> /\ wire[i].out = 0

\* the bytes the attempt has moved
Moved == (IF op[Mover] = "Retrieve" THEN Len(sink) ELSE srcPos) - offset

\* C29: when io.Copy fails the connection is marked broken while the attempt
\* still holds it, the attempt returns the number of bytes copied, and no
\* final reply is read
C29_CopyFailureBreaks ==
  CopyFailed =>
    /\ FirstConn \in broken
    /\ step \in {"defer", "returned"}
    /\ step = "defer" => pconn[Mover] = FirstConn /\ freeConnCh = <<>>
    /\ \A i \in DOMAIN wire : wire[i].f # <<"readResponse">>
    /\ pc[Mover] \in {"got", "after"} => n = Moved /\ err = Errorf("copy")

\* an upload broke off after some bytes and the connection is released
C29_Witness ==
  /\ CopyFailed
  /\ step = "returned"
  /\ op[Mover] = "Store"
  /\ n > 0
  /\ FirstConn \in broken
  /\ freeConnCh = <<FirstConn>>

\* ---- C30 ----
\* the entries of wire that are not exchanges on the control connection
EventNames == {<<"dial">>, <<"io.Copy">>, <<"dc.Close">>, <<"defer dc.Close">>}

\* C30: a write or a read on the control connection that fails sets
\* pconn.broken and returns an error whose temporary flag is set; a broken
\* flag that is set stays set
C30_FailureBreaks ==
  [][/\ (Len(wire') > Len(wire)
           /\ wire'[Len(wire')].f \notin EventNames
           /\ wire'[Len(wire')].out \in {WriteError, IOError})
          => /\ pconn[Mover] \in broken'
             /\ cerr' # NoError
             /\ cerr'.temporary
     /\ broken \subseteq broken']_vars

\* the write of RETR failed; the connection is released with its flag set
C30_Witness ==
  /\ step = "returned"
  /\ \E i \in DOMAIN wire : Verb(wire[i]) = "RETR" /\ wire[i].out = WriteError
  /\ cerr.temporary
  /\ FirstConn \in broken
  /\ freeConnCh = <<FirstConn>>

\* ---- C31 ----
\* C31: the step of Store after the c.size of a retry either ends Store with
\* an error and without another attempt (the size is -1, c.size failed or
\* the Seek did) or leaves src at the reported size and makes the attempt
\* with that offset; the REST of a later attempt of Store carries that size,
\* and its copy starts with src at that position
C31_StoreResumesAtSize ==
  [][\A p \in Procs :
       op[p] = "Store" =>
         /\ (pc[p] = "after" /\ stage = "resize" /\ pc'[p] # "after") =>
              \/ /\ pc'[p] = "done"
                 /\ res'[p] = "err"
                 /\ attempts' = attempts
                 /\ err' # Nil
              \/ /\ size # -1
                 /\ err = Nil
                 /\ pc'[p] = "gi_fast"
                 /\ stage' = "xfer"
                 /\ srcPos' = size
                 /\ offset' = size
                 /\ bytesSoFar' = size
         /\ (pc[p] = "after" /\ stage = "resize" /\ (size = -1 \/ err # Nil))
              => (pc'[p] = "after" \/ pc'[p] = "done")
         /\ (pc'[p] = "x_copy" /\ pc[p] # "x_copy" /\ attempts >= 2) =>
              /\ offset = size
              /\ srcPos = size
              /\ lastRest' = (IF size > 0 THEN size ELSE -1)]_vars

\* the copy of a second attempt of Store begins: REST carried the size the
\* server reported, which is less than what the first attempt had read
C31_Witness ==
  \E p \in Procs :
    /\ pc[p] = "x_copy"
    /\ op[p] = "Store"
    /\ attempts >= 2
    /\ size > 0
    /\ lastRest = size
    /\ srcPos = size
    /\ size < fileLen

\* ---- C32 ----
\* C32: when transferFromOffset has returned (0, err) with err not nil,
\* Retrieve and Store return with that very error: not wrapped, not
\* replaced, the ftpError behind it untouched, with or without REST STREAM
\* and whatever the offset of the attempt was
C32_ZeroBytesErrorUnchanged ==
  [][(/\ pc[Mover] = "after"
      /\ stage = "xfer"
      /\ n = 0
      /\ err # Nil
      /\ pc'[Mover] # "after")
       => /\ pc'[Mover] = "done"
          /\ res'[Mover] = "err"
          /\ err' = err
          /\ cerr' = cerr
          /\ cerr' # NoError]_vars

\* Retrieve, which could resume and had bytes from an earlier attempt, has
\* returned the 421 that answered RETR
C32_Witness ==
  /\ pc[Mover] = "done"
  /\ op[Mover] = "Retrieve"
  /\ res[Mover] = "err"
  /\ canResume
  /\ offset > 0
  /\ n = 0
  /\ err = FtpErr(replyServiceNotAvailable, "RETR")
  /\ cerr = ftpError(replyServiceNotAvailable, ReplyText, "", FALSE)

\* ---- C33 ----
\* C33: Retrieve goes round its loop again only after an attempt that
\* copied at least one byte and failed; each further attempt starts at a
\* bytesSoFar that is larger than before and never beyond the end of the
\* file, so the attempts are at most one more than the file has bytes; an
\* attempt that copied nothing ends Retrieve
C33_RetrieveLoopBounded ==
  [][\A p \in Procs :
       (op[p] = "Retrieve" /\ pc[p] = "after" /\ stage = "xfer" /\ pc'[p] # "after")
         => /\ pc'[p] \in {"gi_fast", "done"}
            /\ pc'[p] = "gi_fast" =>
                 /\ n > 0
                 /\ err # Nil
                 /\ bytesSoFar' = bytesSoFar + n
                 /\ bytesSoFar' > bytesSoFar
                 /\ offset' = bytesSoFar'
                 /\ stage' = "xfer"
            /\ n = 0 => pc'[p] = "done" /\ (res'[p] = "ok" <=> err = Nil /\ err' = Nil)
            /\ bytesSoFar' <= fileLen]_vars

\* Retrieve has ended after its second attempt copied nothing
C33_Witness ==
  \E p \in Procs :
    /\ pc[p] = "done"
    /\ op[p] = "Retrieve"
    /\ attempts >= 2
    /\ n = 0
    /\ bytesSoFar > 0
    /\ bytesSoFar < fileLen

\* ---- C34 ----
\* entry i of wire is a data socket that was opened
OpenedAt(i) == wire[i].f = <<"dial">> /\ wire[i].out = 1

\* entry j of wire is a close of the data socket
ClosedAt(j) ==
  \/ wire[j].f = <<"defer dc.Close">>
  \/ wire[j].f = <<"dc.Close">> /\ wire[j].out = 1

\* C34: when a transfer attempt or a listing has returned, or has left by
\* the panic, every data socket it had opened has been closed
C34_DataSocketClosed ==
  pc[Mover] # "got" =>
    \A i \in DOMAIN wire :
      OpenedAt(i) => \E j \in DOMAIN wire : j > i /\ ClosedAt(j)

\* the panic of a transfer without dest and src, after the data socket was
\* opened
C34_Witness ==
  /\ pc[Mover] = "panic"
  /\ \E i \in DOMAIN wire : OpenedAt(i)
  /\ wire[Len(wire)].f = <<"defer dc.Close">>
  /\ freeConnCh = <<FirstConn>>

\* ---- C35 ----
\* the entries of wire that read the final reply
FinalAt == {i \in DOMAIN wire : wire[i].f = <<"readResponse">>}

\* C35: a listing whose scan of the data socket failed still calls
\* dc.Close() and then reads the final reply before it returns; it returns
\* the read error of that reply or the ftpError of a reply that is not 2xx,
\* and the data error only after a 2xx reply
C35_FinalReplyBeforeDataError ==
  (op[Mover] \in ListOps /\ ScanFailed /\ pc[Mover] # "got") =>
    \E i \in DOMAIN wire, j \in DOMAIN wire, k \in FinalAt :
      /\ wire[i].f = <<"scan">>
      /\ wire[j].f = <<"dc.Close">>
      /\ i < j
      /\ j < k
      /\ FinalAt = {k}
      /\ err = (IF wire[k].out = IOError THEN IOErr
                ELSE IF ~positiveCompletionReply(wire[k].out)
                THEN FtpErr(wire[k].out, "final")
                ELSE Errorf("data"))
      /\ cerr.temporary <=> wire[k].out = IOError \/ positiveCompletionReply(wire[k].out)

\* NameList has returned the 550 of the final reply after a failed scan
C35_Witness ==
  /\ pc[Mover] = "done"
  /\ op[Mover] = "NameList"
  /\ ScanFailed
  /\ res[Mover] = "err"
  /\ err = FtpErr(replyFileError, "final")
  /\ FirstConn \notin broken

\* ---- C36 ----
\* the steps of openConn in their order
SetupRank(st) ==
  CASE st = "greet" -> 0 [] st = "auth" -> 1 [] st = "user" -> 2
    [] st = "pass" -> 3 [] st = "pbsz" -> 4 [] st = "prot" -> 5
    [] st = "feat" -> 6 [] OTHER -> 7

\* the commands a finished setup has sent, given whether USER was answered
\* with 331
SetupCommands(pass) ==
  (IF config.TLS THEN <<"AUTH TLS">> ELSE <<>>) \o <<"USER">> \o
  (IF pass THEN <<"PASS">> ELSE <<>>) \o
  (IF config.TLS THEN <<"PBSZ", "PROT">> ELSE <<>>) \o <<"FEAT">>

\* the connection is set up: every command of the setup was sent, in order,
\* and answered as the setup needs it; FEAT was answered, and a reply to it
\* that is not 2xx has left the feature map empty
SetUp ==
  /\ cerr = NoError
  /\ \E pass \in BOOLEAN :
       [i \in DOMAIN wire |-> Verb(wire[i])] = SetupCommands(pass)
  /\ \A i \in DOMAIN wire :
       /\ Verb(wire[i]) = "AUTH TLS" => wire[i].out = replyAuthOkayNoDataNeeded
       /\ Verb(wire[i]) = "USER" =>
            \/ wire[i].out = replyNeedPassword /\ Verb(wire[i + 1]) = "PASS"
            \/ positiveCompletionReply(wire[i].out) /\ Verb(wire[i + 1]) # "PASS"
       /\ Verb(wire[i]) \in {"PASS", "PBSZ", "PROT"} =>
            positiveCompletionReply(wire[i].out)
       /\ Verb(wire[i]) = "FEAT" =>
            /\ wire[i].out \notin {WriteError, IOError}
            /\ ~positiveCompletionReply(wire[i].out) => featureMap = {}

\* C36: openConn goes through the greeting, the login (AUTH TLS first in
\* explicit TLS mode, PBSZ and PROT after it) and FEAT in this order and
\* only while nothing has failed; a failure, such as a greeting that is not
\* 220, ends it for good; the connection is ready, to be registered and
\* handed out, only when all of it is done, a FEAT reply that is not 2xx
\* included
C36_SetupOrder ==
  [][/\ (step' # step /\ step # "ready") =>
          \/ step' \in {"failed", "panic"}
          \/ /\ SetupRank(step') > SetupRank(step)
             /\ step \notin {"failed", "panic"}
             /\ cerr' = NoError
     /\ (step # "failed" /\ step' = "failed") => cerr' # NoError
     /\ (step = "greet" /\ step' # "greet") =>
          step' \in {"failed", IF config.TLS THEN "auth" ELSE "user"}
     /\ step' = "ready" => SetUp']_vars

\* a connection set up in explicit TLS mode on a server that answers FEAT
\* with 530
C36_Witness ==
  /\ step = "ready"
  /\ config.TLS
  /\ Len(wire) = Len(SetupCommands(TRUE))
  /\ wire[Len(wire)].out = replyNotLoggedIn
  /\ featureMap = {}

\* the reply to PASV, once PASV has been sent
PasvReply == wire[CHOOSE i \in DOMAIN wire : wire[i].f = <<"PASV">>]

\* the hosts the data socket has been dialled at
DialledAt == {wire[i].args : i \in {j \in DOMAIN wire : wire[j].f = <<"dial">>}}

\* C37: when the reply to EPSV is not 229 or cannot be parsed, PASV is sent,
\* and when its reply is a 227 whose text holds an endpoint, requestPassive
\* returns that endpoint: no parse error, and the data socket is dialled
\* there and nowhere else.
C37_PasvReplyParsed ==
  /\ (Len(wire) = 1 /\ wire[1].out \notin {WriteError, IOError}
        /\ ~(wire[1].out = replyEnteringExtendedPassiveMode /\ ParseEpsv(wire[1].msg).ok))
       => step = "pasv"
  /\ (PasvSent /\ PasvReply.out = replyEnteringPassiveMode /\ ParsePasv(PasvReply.msg).ok)
       => /\ cerr.err # "error parsing PASV response"
          /\ DialledAt \subseteq {<<ParsePasv(PasvReply.msg).host>>}

\* the decimal digits of a number that is not negative
RECURSIVE Decimal(_)
Decimal(k) ==
  IF k < 10 THEN <<ToString(k)>> ELSE Decimal(k \div 10) \o <<ToString(k % 10)>>

\* the number a text of decimal digits stands for, -1 when it is none
\* between 0 and 255
OctetOf(part) ==
  IF \E k \in 0..255 : Decimal(k) = part
  THEN CHOOSE k \in 0..255 : Decimal(k) = part
  ELSE 0 - 1

\* the parts between the first "(" and the last ")" of a text, <<>> when it
\* has no such pair
PayloadOf(text) ==
  IF Index(text, "(") = 0 \/ LastIndex(text, ")") < Index(text, "(") THEN <<>>
  ELSE Split(SubSeq(text, Index(text, "(") + 1, LastIndex(text, ")") - 1), ",")

\* the text requestPassive searches for the payload has been searched
PayloadSearched == PasvSent /\ PasvReply.out = replyEnteringPassiveMode

\* C38: a payload (h1,h2,h3,h4,p1,p2) of six numbers between 0 and 255
\* gives the endpoint h1.h2.h3.h4 : p1*256 + p2, and every other payload is
\* rejected with the parse error.
C38_PasvPayload ==
  PayloadSearched =>
    LET parts == PayloadOf(EpsvReply.msg)
        o == [i \in DOMAIN parts |-> OctetOf(parts[i])]
    IN IF Len(parts) = 6 /\ \A i \in 1..6 : o[i] >= 0
       THEN /\ cerr.err # "error parsing PASV response"
            /\ DialledAt \subseteq
                 {<<<<ToString(o[1]), ".", ToString(o[2]), ".", ToString(o[3]), ".",
                      ToString(o[4]), ":", ToString(o[5] * 256 + o[6])>>>>}
            /\ o[5] * 256 + o[6] \in 0..65535
       ELSE /\ cerr.err = "error parsing PASV response"
            /\ DialledAt = {}

\* every idx the client knows of: held by a caller, idle, registered,
\* closed, broken or dialled
IdxInUse ==
  ({pconn[p] : p \in DOMAIN pconn} \ {NoConn})
    \cup {freeConnCh[i] : i \in DOMAIN freeConnCh}
    \cup allCons \cup sockClosed \cup broken
    \cup {i \in Conns : dialled[i] # NoHost}

\* C39: every connection the pool starts to open gets an idx above every
\* idx assigned before it, so that no two share one, whatever the callers
\* do at the same time and whether or not earlier opens failed; and it
\* dials the host at position idx mod len(hosts), once.
C39_FreshIdxAndHost ==
  [][/\ \A i \in IdxInUse : i <= connIdx
     /\ connIdx' >= connIdx
     /\ \A p \in DOMAIN pc :
          (pc[p] # "gi_open" /\ pc'[p] = "gi_open")
            => /\ pconn'[p] = connIdx'
               /\ connIdx' > connIdx
               /\ \A q \in DOMAIN pc \ {p} : pconn'[q] # pconn'[p]
     /\ \A i \in Conns :
          dialled'[i] # dialled[i]
            => /\ dialled[i] = NoHost
               /\ dialled'[i] = i % hosts
               /\ \E p \in DOMAIN pc : pc[p] = "gi_open" /\ pconn[p] = i]_vars

C39_Witness ==
  /\ hosts > 1
  /\ \E i, j \in Conns :
       /\ MaxIdx - MaxConnections < i
       /\ i < j
       /\ i \in sockClosed
       /\ i \notin allCons
       /\ j \in allCons
       /\ dialled[i] # NoHost
       /\ dialled[j] # NoHost
       /\ dialled[i] # dialled[j]

\* entry i of wire is a command, as opposed to a reply read on its own or a
\* call on the data socket
IsCommand(i) == wire[i].line # <<>>

\* the reply to command i has been read
Answered(i) == wire[i].out \notin {WriteError, IOError}

\* the reply to command i was a preliminary one (1xx): another is to come
Preliminary(i) == Answered(i) /\ wire[i].out \div 100 = 1

\* the replies read on their own after entry i
RepliesAfter(i) ==
  {j \in (i + 1)..Len(wire) : wire[j].f = <<"readResponse">> /\ wire[j].out # IOError}

\* every command has had its reply read, a preliminary reply has been
\* followed by the read of the final one, and no reply has been read that
\* no command was owed
AtCommandBoundary ==
  /\ \A i \in DOMAIN wire :
       IsCommand(i) => /\ Answered(i)
                       /\ Preliminary(i) => RepliesAfter(i) # {}
  /\ Cardinality(RepliesAfter(0))
       = Cardinality({i \in DOMAIN wire : IsCommand(i) /\ Preliminary(i)})

\* C40: a connection that is in the idle queue with its broken flag unset
\* is at a command boundary: every reply, preliminary and final, of every
\* command sent on it has been read.
C40_IdleAtCommandBoundary ==
  \A k \in DOMAIN freeConnCh : freeConnCh[k] \notin broken => AtCommandBoundary

C40_Witness ==
  /\ freeConnCh = <<FirstConn>>
  /\ FirstConn \notin broken
  /\ op[Mover] \in ListOps
  /\ ScanFailed
  /\ \E i \in DOMAIN wire :
       /\ IsCommand(i)
       /\ Preliminary(i)
       /\ \E j \in RepliesAfter(i) : wire[j].out = replyFileError

====
